---- MODULE Spec2Model ----
(***************************************************************************)
(* Model of the OpenPLC runtime core: the PLC state manager                *)
(* (plc_state_manager.c), the program artifact manager (plcapp_manager.c), *)
(* the image tables (image_tables.c), the command socket's START/STOP      *)
(* handlers (unix_socket.c) and the scan-cycle thread.                     *)
(***************************************************************************)
EXTENDS Integers, Sequences, FiniteSets, TLC

\* ------------------------------------------------------------------ bounds

\* Number of scan-cycle threads the host lets the process hold at once:
\* pthread_create fails (EAGAIN) when every slot is taken.
MaxThreads == 2

\* Number of rows of every image-table matrix kept in the model
\* (BUFFER_SIZE rows in the program).
Rows == 1

\* Columns of the two boolean matrices kept in the model (8 in the program).
Bits == 1

\* Value at which the model stops counting scan cycles: scan_count = MaxScan
\* stands for every count from MaxScan on.
MaxScan == 4

\* Descriptors in the plugin descriptor file (up to MAX_PLUGINS in the program).
MaxPlugins == 2

\* Hook invocations after which the model makes no further cycle fan-out.
MaxHooks == 2

\* Largest heartbeat value (a time(NULL) reading, counted from 0) in the model.
MaxBeat == 3

\* *ext_common_ticktime__ / 1000: the cycle period T, in clock units.
Tick == 2

\* Longest time from scan_cycle_time_start to scan_cycle_time_end, and longest
\* time from scan_cycle_time_end to the next scan_cycle_time_start.
MaxBody == 3
MaxSleep == 2

\* Runs of the scan loop (from a publish of RUNNING to the next) in the model.
MaxRuns == 2

\* Cycles of a run whose times go into the statistics in the model.
MaxCycles == 3

\* Clock units in a second: the 1e9 of normalize_timespec on the model's clock.
Second == 3

\* Largest number of debug variables the loaded program reports.
MaxVars == 3

\* Largest number of lines of a plugin descriptor file.
MaxLines == 3

\* Calls of plugin_driver_create in the model.
MaxCreates == 4

\* Interpreter locks left held by plugin_driver_init that the model follows.
MaxGil == 2

\* ------------------------------------------------------- program constants

PLC_STATE_INIT    == "INIT"
PLC_STATE_RUNNING == "RUNNING"
PLC_STATE_STOPPED == "STOPPED"
PLC_STATE_ERROR   == "ERROR"
PLC_STATE_EMPTY   == "EMPTY"

PLCState == {PLC_STATE_INIT, PLC_STATE_RUNNING, PLC_STATE_STOPPED,
             PLC_STATE_ERROR, PLC_STATE_EMPTY}

\* The thirteen pointer matrices of image_tables.c.
BoolMatrices == {"bool_input", "bool_output"}

Matrices == BoolMatrices \cup
            {"byte_input", "byte_output", "int_input", "int_output",
             "dint_input", "dint_output", "lint_input", "lint_output",
             "int_memory", "dint_memory", "lint_memory"}

\* Every cell reference of every matrix: <<matrix, row, column>>.
Cells == {<<m, i, b>> \in Matrices \X (0 .. Rows - 1) \X (0 .. Bits - 1) :
              m \in BoolMatrices \/ b = 0}

\* The symbols symbols_init resolves and checks.
RequiredSymbols == {"config_run__", "config_init__", "glueVars", "updateTime",
                    "setBufferPointers", "common_ticktime__", "plc_program_md5",
                    "set_endianness", "get_var_count", "get_var_size",
                    "get_var_addr", "set_trace"}

\* The program artifacts a build directory can hold: a complete one that
\* binds one output bit, one that lacks config_init__, and one without
\* located variables that lacks only a debug accessor.
Artifacts == {"A_ok", "A_noInit", "A_noTrace"}

\* Symbols an artifact does not export.
Missing(a) == CASE a = "A_noInit"  -> {"config_init__"}
                [] a = "A_noTrace" -> {"set_trace"}
                [] OTHER           -> {}

\* Cells the artifact's glueVars points at its own variables (a program
\* without located variables binds none).
Binds(a) == IF a = "A_noTrace" THEN {} ELSE {<<"bool_output", 0, 0>>}

Threads == 1 .. MaxThreads

VARIABLES
    plc_state,     \* static PLCState plc_state
    plc_program,   \* PluginManager *plc_program: "NULL" or "pm"
    pm_handle,     \* plc_program->handle: "NULL" or the artifact dlopen'ed
    plc_thread,    \* pthread_t plc_thread: 0 (never written) or a thread slot
    joinable,      \* plc_thread names a created thread not joined yet
    thr,           \* the scan-cycle threads: slot -> [pc, freed (its pm argument dangles)]
    ext,           \* the ext_* function pointers: "unset" or the artifact resolved
    ext_closed,    \* the library the ext_* pointers point into was dlclose'd
    bases_set,     \* the open library received the matrix bases (setBufferPointers)
    tables,        \* the image tables: cell -> "null" | "prog" | "temp"
    buffer_mutex,  \* plugin_driver->buffer_mutex: 0 or the thread holding it
    cmd,           \* the command-socket thread inside handle_unix_socket_commands
    driver,        \* plugin_driver_t *plugin_driver: [plugin_count, plugins]
    hooks,         \* invocations of native cycle hooks so far: [cycle_start, cycle_end]
    crashed,       \* the process was killed by undefined behaviour
    plugin_thread, \* a plugin's own thread: [pc, args (what its init kept of the handle)]
    private_mutex, \* a mutex object other than driver->buffer_mutex: 0 or its holder
    plc_heartbeat, \* atomic_long plc_heartbeat: 0, or 1 for a time(NULL) stored by the loop
    scan_count,    \* plc_timing_stats.scan_count, counted up to MaxScan
    track_stats,   \* the two fields above are part of the state (never changes; a
                   \* specification whose claims do not read them leaves them at 0)
    conf,          \* plugins.conf and the files it names: descriptor i -> [enabled, type, lib]
    api,           \* the last plugin_driver_* call that returned: [op, ret]
    calls,         \* the plugin functions that call invoked, in order: <<function, plugin i>>
    init_status,   \* plugin i -> what its init returned in plugin_driver_init, if called
    args_heap,     \* plugin i -> the plugin_runtime_args_t its init was given:
                   \* "none" | "allocated" | "freed"
    gil,           \* PyGILState_Ensure calls of plugin_driver_init that no
                   \* PyGILState_Release has matched
    config_file,   \* whether the descriptor file can be opened (or created from
                   \* plugins_default.conf): "readable" | "unreadable"
    wd,            \* watchdog_thread: [pc, last, seen (state it read), prev (heartbeat
                   \* at its previous sample), exited (it called exit)]
    timing,        \* scan_cycle_manager.c: the clock, expected_start_us, last_start_us,
                   \* plc_timing_stats.overruns, and what the run did so far
    dbg,           \* a debug request and its reply: [sizes (ext_get_var_size of each
                   \* variable), startidx, endidx, replied, frame_len, frame, packed]
    parse,         \* a descriptor file and what parse_plugin_config made of it:
                   \* [file, max_configs, done, ret, configs, written, plugin_count,
                   \* plugins]
    create,        \* plugin_driver_create: [calls, fail (the library call that failed
                   \* in the last call), last (what the last call did and returned),
                   \* total (what all calls did)]
    sl,            \* the state lock: [owner, set, scan, get, new_state, access (the last
                   \* access of the state word: by, kind, locked, in_set_state)]
    pstats         \* plc_timing_stats and the clocks of the scan loop: [pc, now, timer_start,
                   \* expected_start_us, last_start_us, the nine statistics, overruns, runs,
                   \* and the samples taken and their number in the run]

vars == <<plc_state, plc_program, pm_handle, plc_thread, joinable, thr, ext,
          ext_closed, bases_set, tables, buffer_mutex, cmd, driver,
          hooks, crashed, plugin_thread, private_mutex, plc_heartbeat,
          scan_count, track_stats, conf, api, calls, init_status, args_heap, gil, config_file, wd,
          timing, dbg, parse, create,
        sl,
        pstats>>

\* The plugin driver's part of the state.
plugin_vars == <<driver, hooks, plugin_thread, private_mutex, conf, api, calls,
                 init_status, args_heap, gil, config_file>>

\* The watchdog heartbeat and the timing statistics.
stats_vars == <<plc_heartbeat, scan_count, track_stats>>

\* The state of the threads and modules beside the scan cycle, the command
\* thread and the plugin driver.
aux_vars == <<wd, timing, dbg, parse, create,
        sl,
        pstats>>

\* ------------------------------------------------------------ image tables

\* image_tables_fill_null_pointers: every NULL reference is pointed at the
\* runtime-owned temp_* cell of its matrix.
image_tables_fill_null_pointers(t) ==
    [c \in Cells |-> IF t[c] = "null" THEN "temp" ELSE t[c]]

\* image_tables_clear_null_pointers: every reference becomes NULL.
image_tables_clear_null_pointers(t) == [c \in Cells |-> "null"]

\* glueVars of artifact a: the artifact binds the cells it uses and leaves
\* the others as they are.
glueVars(t, a) == [c \in Cells |-> IF c \in Binds(a) THEN "prog" ELSE t[c]]

\* ------------------------------------------------------------- symbol table

\* The value of pointer ext_<sym> is non-NULL.
Resolved(sym) == ext /= "unset" /\ sym \notin Missing(ext)

\* Calling ext_<sym> is defined behaviour: resolved, into a library still open.
Callable(sym) == Resolved(sym) /\ ~ext_closed

\* symbols_init's check "all symbols were loaded" (its return value 0).
symbols_ok == \A s \in RequiredSymbols : Resolved(s)

\* ------------------------------------------------------------ initial state

IdleCmd == [pc |-> "idle", new_state |-> "NONE", c |-> "NONE",
            ret |-> "NONE", fail |-> "none"]

NoThread == [pc |-> "none", freed |-> FALSE]

\* plugin_type_t
PLUGIN_TYPE_PYTHON == "PYTHON"
PLUGIN_TYPE_NATIVE == "NATIVE"

\* A plugin_instance_t after plugin_driver_start: an enabled native plugin
\* whose library exports start_loop and both cycle hooks.  The pointer
\* native_plugin is <<>> when NULL, else <<bundle>>.
StartedNativePlugin ==
    [enabled |-> TRUE, type |-> PLUGIN_TYPE_NATIVE, running |-> TRUE,
     native_plugin |-> <<[start |-> TRUE, stop |-> TRUE, cycle_start |-> TRUE,
                          cycle_end |-> TRUE, cleanup |-> TRUE]>>]

\* watchdog_thread as it enters its loop: last = atomic_load(&plc_heartbeat)
\* of the zero-initialised heartbeat.
NoWatchdog == [pc |-> "sleep", last |-> 0, seen |-> "NONE", prev |-> 0, exited |-> FALSE]

\* The statics of scan_cycle_manager.c before any run: expected_start_us = 0,
\* last_start_us = 0, overruns = 0.  started counts the calls of
\* scan_cycle_time_start in the current run, deadline is the expected start
\* of the current cycle plus Tick reckoned from the first start of the run,
\* slow tells that every cycle of the run took longer than Tick, base is the
\* value of overruns when the run began, and runs counts the runs.
NoTiming ==
    [pc |-> "idle", now |-> 0, expected_start_us |-> 0, last_start_us |-> 0,
     overruns |-> 0, started |-> 0, deadline |-> 0, slow |-> TRUE, base |-> 0,
     runs |-> 0, timer_start |-> [tv_sec |-> 0, tv_nsec |-> 0], t0 |-> 0]

\* The largest value of the model's integers, for INT64_MAX.
INT64_MAX == 2147483647

\* plc_timing_stats as it is defined, the clocks at 0, no run begun.
NoStats ==
    [pc |-> "idle", now |-> 0, timer_start |-> [tv_sec |-> 0, tv_nsec |-> 0],
     expected_start_us |-> 0, last_start_us |-> 0,
     scan_time_min |-> INT64_MAX, scan_time_max |-> 0, scan_time_avg |-> 0,
     cycle_time_min |-> INT64_MAX, cycle_time_max |-> 0, cycle_time_avg |-> 0,
     cycle_latency_min |-> INT64_MAX, cycle_latency_max |-> 0, cycle_latency_avg |-> 0,
     overruns |-> 0, runs |-> 0,
     scan_samples |-> 0, cycle_samples |-> 0,
     scan_time_us |-> 0, cycle_time_us |-> 0, latency_us |-> 0]

\* No access of the state word has been made.
NoAccess == [by |-> "none", kind |-> "none", locked |-> FALSE, in_set_state |-> FALSE]

\* state_mutex is free and no thread is at an access of the state word.
NoStateLock ==
    [owner |-> "none", set |-> "idle", scan |-> "none", get |-> "idle",
     new_state |-> "NONE", access |-> NoAccess]

\* What a call of plugin_driver_create did: the library calls it made, how
\* many mutexes it left initialised, and what it returned.
NoCalls ==
    [calloc |-> 0, free |-> 0, pthread_mutexattr_init |-> 0,
     pthread_mutexattr_destroy |-> 0, pthread_mutex_init |-> 0, initialised |-> 0,
     ret |-> "NULL", plugin_count |-> 0]

\* plugin_driver_create has not been called.
NoCreate == [calls |-> 0, fail |-> "none", last |-> NoCalls, total |-> NoCalls]

\* No descriptor file has been read.
NoParse ==
    [file |-> <<>>, max_configs |-> 0, done |-> FALSE, ret |-> 0, configs |-> <<>>,
     written |-> {}, plugin_count |-> 0, plugins |-> <<>>]

\* No debug request is being processed.
NoDebug ==
    [sizes |-> <<>>, startidx |-> 0, endidx |-> 0, replied |-> FALSE, frame_len |-> 0,
     frame |-> <<>>, packed |-> <<>>]

\* No plugin_driver_* call has been made on the driver.
NoCall == [op |-> "none", ret |-> 0, phase |-> "created"]

\* A plugin whose init has not been called: it holds nothing of a handle.
NoPluginThread == [pc |-> "noinit", args |-> <<>>]

Init ==
    /\ plc_state = PLC_STATE_STOPPED
    /\ plc_program = "NULL"
    /\ pm_handle = "NULL"
    /\ plc_thread = 0
    /\ joinable = FALSE
    /\ thr = [t \in Threads |-> NoThread]
    /\ ext = "unset"
    /\ ext_closed = FALSE
    /\ bases_set = FALSE
    /\ tables = [c \in Cells |-> "null"]
    /\ buffer_mutex = 0
    /\ cmd = IdleCmd
    /\ driver = [plugin_count |-> 1, plugins |-> <<StartedNativePlugin>>]
    /\ hooks = [cycle_start |-> 0, cycle_end |-> 0]
    /\ crashed = FALSE
    /\ plugin_thread = NoPluginThread
    /\ private_mutex = 0
    /\ plc_heartbeat = 0
    /\ scan_count = 0
    /\ track_stats = FALSE
    /\ conf = <<>>
    /\ api = NoCall
    /\ calls = <<>>
    /\ init_status = <<>>
    /\ args_heap = <<>>
    /\ gil = 0
    /\ config_file = "readable"
    /\ wd = NoWatchdog
    /\ timing = NoTiming
    /\ dbg = NoDebug
    /\ parse = NoParse
    /\ create = NoCreate
    /\ sl = NoStateLock
    /\ pstats = NoStats

Alive(t) == thr[t].pc \notin {"none", "done"}

\* ------------------------------------------------------------ plugin driver

\* A fan-out that does not skip the plugins that are not running.
HookTargets_NotRunning(d, h) ==
    SelectSeq([i \in 1 .. d.plugin_count |-> i],
              LAMBDA i : LET plugin == d.plugins[i] IN
                  /\ plugin.enabled
                  /\ plugin.type = PLUGIN_TYPE_NATIVE
                  /\ plugin.native_plugin /= <<>>
                  /\ plugin.native_plugin[1][h])

\* The plugins a cycle fan-out for hook h ("cycle_start" or "cycle_end")
\* calls, in list order: enabled, running, native, with the hook exported.
HookTargets(d, h) ==
    SelectSeq([i \in 1 .. d.plugin_count |-> i],
              LAMBDA i : LET plugin == d.plugins[i] IN
                  /\ plugin.enabled
                  /\ plugin.running
                  /\ plugin.type = PLUGIN_TYPE_NATIVE
                  /\ plugin.native_plugin /= <<>>
                  /\ plugin.native_plugin[1][h])

\* plugin_driver_cycle_start(driver): one cycle_start() per target.
plugin_driver_cycle_start ==
    /\ hooks' = [hooks EXCEPT !.cycle_start = @ + Len(HookTargets(driver, "cycle_start"))]
    /\ UNCHANGED driver

\* plugin_driver_cycle_end(driver): one cycle_end() per target.
plugin_driver_cycle_end ==
    /\ hooks' = [hooks EXCEPT !.cycle_end = @ + Len(HookTargets(driver, "cycle_end"))]
    /\ UNCHANGED driver

\* ------------------------------------------- command socket: START and STOP

\* handle_unix_socket_commands, "START": plc_get_state(), then
\* plc_set_state(RUNNING) unless the state read is RUNNING.
CmdStart ==
    /\ ~crashed
    /\ UNCHANGED plugin_vars
    /\ UNCHANGED aux_vars
    /\ UNCHANGED stats_vars
    /\ cmd.pc = "idle"
    /\ cmd' = IF plc_state /= PLC_STATE_RUNNING
              THEN [IdleCmd EXCEPT !.pc = "set_entry",
                                   !.new_state = PLC_STATE_RUNNING]
              ELSE [IdleCmd EXCEPT !.pc = "return",
                                   !.fail = "already_running"]
    /\ UNCHANGED <<plc_state, plc_program, pm_handle, plc_thread, joinable, thr,
                   ext, ext_closed, bases_set, tables, buffer_mutex, crashed>>

\* handle_unix_socket_commands, "STOP": plc_set_state(STOPPED).
CmdStop ==
    /\ ~crashed
    /\ UNCHANGED plugin_vars
    /\ UNCHANGED aux_vars
    /\ UNCHANGED stats_vars
    /\ cmd.pc = "idle"
    /\ cmd' = [IdleCmd EXCEPT !.pc = "set_entry",
                              !.new_state = PLC_STATE_STOPPED]
    /\ UNCHANGED <<plc_state, plc_program, pm_handle, plc_thread, joinable, thr,
                   ext, ext_closed, bases_set, tables, buffer_mutex, crashed>>

\* A caller of the public plc_set_state(new_state) with any state.
CallSetState ==
    /\ ~crashed
    /\ UNCHANGED plugin_vars
    /\ UNCHANGED aux_vars
    /\ UNCHANGED stats_vars
    /\ cmd.pc = "idle"
    /\ \E s \in PLCState :
           cmd' = [IdleCmd EXCEPT !.pc = "set_entry", !.new_state = s]
    /\ UNCHANGED <<plc_state, plc_program, pm_handle, plc_thread, joinable, thr,
                   ext, ext_closed, bases_set, tables, buffer_mutex, crashed>>

\* ------------------------------------------------------------ plc_set_state

\* plc_set_state without the comparison at its entry: the state word is
\* stored and the transition taken whatever the current state.
SetEntry_NoComparison ==
    /\ ~crashed
    /\ UNCHANGED plugin_vars
    /\ UNCHANGED aux_vars
    /\ UNCHANGED stats_vars
    /\ cmd.pc = "set_entry"
    /\ plc_state' = cmd.new_state
    /\ cmd' = [cmd EXCEPT !.c = plc_state,
                  !.pc = CASE cmd.new_state = PLC_STATE_RUNNING -> "run_program"
                           [] cmd.new_state = PLC_STATE_STOPPED -> "unload"
                           [] OTHER -> "return",
                  !.ret = IF cmd.new_state \in {PLC_STATE_RUNNING, PLC_STATE_STOPPED}
                          THEN "NONE" ELSE "true"]
    /\ UNCHANGED <<plc_program, pm_handle, plc_thread, joinable, thr, ext,
                   ext_closed, bases_set, tables, buffer_mutex, crashed>>

\* plc_set_state, the locked section at its entry: false when the state is
\* already new_state, else the state word is overwritten.
SetEntry ==
    /\ ~crashed
    /\ UNCHANGED plugin_vars
    /\ UNCHANGED aux_vars
    /\ UNCHANGED stats_vars
    /\ cmd.pc = "set_entry"
    /\ IF plc_state = cmd.new_state
       THEN /\ cmd' = [cmd EXCEPT !.pc = "return", !.c = plc_state, !.ret = "false",
                                  !.fail = "same"]
            /\ UNCHANGED plc_state
       ELSE /\ plc_state' = cmd.new_state
            /\ cmd' = [cmd EXCEPT !.c = plc_state,
                          !.pc = CASE cmd.new_state = PLC_STATE_RUNNING -> "run_program"
                                   [] cmd.new_state = PLC_STATE_STOPPED -> "unload"
                                   [] OTHER -> "return",
                          !.ret = IF cmd.new_state \in {PLC_STATE_RUNNING, PLC_STATE_STOPPED}
                                  THEN "NONE" ELSE "true"]
    /\ UNCHANGED <<plc_program, pm_handle, plc_thread, joinable, thr, ext,
                   ext_closed, bases_set, tables, buffer_mutex, crashed>>

\* plc_set_state, transition to running up to the dlopen in load_plc_program:
\* find_libplc_file and plugin_manager_create when no program is recorded,
\* then plugin_manager_load.
SetRunProgram ==
    /\ ~crashed
    /\ UNCHANGED plugin_vars
    /\ UNCHANGED aux_vars
    /\ UNCHANGED stats_vars
    /\ cmd.pc = "run_program"
    /\ IF plc_program = "NULL"
       THEN \E found \in BOOLEAN, alloc \in BOOLEAN, art \in Artifacts \cup {"NULL"} :
              IF ~found \/ ~alloc
              THEN \* find_libplc_file or plugin_manager_create returned NULL
                   /\ art = "NULL"
                   /\ found \/ alloc
                   /\ plc_state' = PLC_STATE_EMPTY
                   /\ cmd' = [cmd EXCEPT !.pc = "return", !.ret = "false",
                                 !.fail = IF found THEN "alloc" ELSE "notfound"]
                   /\ UNCHANGED <<plc_program, pm_handle, bases_set>>
              ELSE \* plugin_manager_load: dlopen(pm->so_path, RTLD_NOW)
                   /\ plc_program' = "pm"
                   /\ pm_handle' = art
                   /\ bases_set' = FALSE
                   /\ cmd' = [cmd EXCEPT !.pc = IF art = "NULL" THEN "load_empty"
                                                ELSE "load_init"]
                   /\ UNCHANGED plc_state
       ELSE \* a program object is recorded already
            /\ IF pm_handle /= "NULL"
               THEN /\ cmd' = [cmd EXCEPT !.pc = "load_init"]
                    /\ UNCHANGED <<pm_handle, bases_set>>
               ELSE \E art \in Artifacts \cup {"NULL"} :
                      /\ pm_handle' = art
                      /\ bases_set' = FALSE
                      /\ cmd' = [cmd EXCEPT !.pc = IF art = "NULL" THEN "load_empty"
                                                   ELSE "load_init"]
            /\ UNCHANGED <<plc_state, plc_program>>
    /\ UNCHANGED <<plc_thread, joinable, thr, ext, ext_closed, tables,
                   buffer_mutex, crashed>>

\* load_plc_program, plugin_manager_load succeeded: the state becomes INIT.
LoadInit ==
    /\ ~crashed
    /\ UNCHANGED plugin_vars
    /\ UNCHANGED aux_vars
    /\ UNCHANGED stats_vars
    /\ cmd.pc = "load_init"
    /\ plc_state' = PLC_STATE_INIT
    /\ cmd' = [cmd EXCEPT !.pc = "load_create"]
    /\ UNCHANGED <<plc_program, pm_handle, plc_thread, joinable, thr, ext,
                   ext_closed, bases_set, tables, buffer_mutex, crashed>>

\* load_plc_program, pthread_create(&plc_thread, NULL, plc_cycle_thread, pm):
\* a new scan-cycle thread, or ERROR when the thread cannot be created.
LoadCreate ==
    /\ ~crashed
    /\ UNCHANGED plugin_vars
    /\ UNCHANGED aux_vars
    /\ UNCHANGED stats_vars
    /\ cmd.pc = "load_create"
    /\ \/ \E t \in Threads :
            /\ thr[t].pc = "none"
            /\ \A u \in Threads : u < t => thr[u].pc /= "none"
            /\ thr' = [thr EXCEPT ![t] = [pc |-> "symbols_init", freed |-> FALSE]]
            /\ plc_thread' = t
            /\ joinable' = TRUE
            /\ cmd' = [cmd EXCEPT !.pc = "return", !.ret = "true"]
            /\ UNCHANGED plc_state
       \/ /\ plc_state' = PLC_STATE_ERROR
          /\ cmd' = [cmd EXCEPT !.pc = "set_error", !.fail = "create"]
          /\ UNCHANGED <<thr, plc_thread, joinable>>
    /\ UNCHANGED <<plc_program, pm_handle, ext, ext_closed, bases_set, tables,
                   buffer_mutex, crashed>>

\* load_plc_program, plugin_manager_load failed: the state becomes EMPTY.
LoadEmpty ==
    /\ ~crashed
    /\ UNCHANGED plugin_vars
    /\ UNCHANGED aux_vars
    /\ UNCHANGED stats_vars
    /\ cmd.pc = "load_empty"
    /\ plc_state' = PLC_STATE_EMPTY
    /\ cmd' = [cmd EXCEPT !.pc = "set_error", !.fail = "open"]
    /\ UNCHANGED <<plc_program, pm_handle, plc_thread, joinable, thr, ext,
                   ext_closed, bases_set, tables, buffer_mutex, crashed>>

\* plc_set_state, load_plc_program returned -1: ERROR, return false.
SetError ==
    /\ ~crashed
    /\ UNCHANGED plugin_vars
    /\ UNCHANGED aux_vars
    /\ UNCHANGED stats_vars
    /\ cmd.pc = "set_error"
    /\ plc_state' = PLC_STATE_ERROR
    /\ cmd' = [cmd EXCEPT !.pc = "return", !.ret = "false"]
    /\ UNCHANGED <<plc_program, pm_handle, plc_thread, joinable, thr, ext,
                   ext_closed, bases_set, tables, buffer_mutex, crashed>>

\* plc_set_state, transition to stopped: unload_plc_program up to its
\* store of STOPPED; -1 (false) when no program is recorded.
Unload ==
    /\ ~crashed
    /\ UNCHANGED plugin_vars
    /\ UNCHANGED aux_vars
    /\ UNCHANGED stats_vars
    /\ cmd.pc = "unload"
    /\ IF plc_program = "NULL"
       THEN /\ cmd' = [cmd EXCEPT !.pc = "return", !.ret = "false", !.fail = "noprog"]
            /\ UNCHANGED plc_state
       ELSE /\ plc_state' = PLC_STATE_STOPPED
            /\ cmd' = [cmd EXCEPT !.pc = "join"]
    /\ UNCHANGED <<plc_program, pm_handle, plc_thread, joinable, thr, ext,
                   ext_closed, bases_set, tables, buffer_mutex, crashed>>

\* unload_plc_program, pthread_join(plc_thread, NULL): waits for the thread
\* plc_thread names; joining a handle that names no joinable thread is
\* undefined (it returns at once or kills the process).
Join ==
    /\ ~crashed
    /\ UNCHANGED plugin_vars
    /\ UNCHANGED aux_vars
    /\ UNCHANGED stats_vars
    /\ cmd.pc = "join"
    /\ IF joinable
       THEN /\ thr[plc_thread].pc = "done"
            /\ thr' = [thr EXCEPT ![plc_thread] = NoThread]
            /\ joinable' = FALSE
            /\ UNCHANGED crashed
       ELSE /\ crashed' \in BOOLEAN
            /\ UNCHANGED <<thr, joinable>>
    /\ cmd' = [cmd EXCEPT !.pc = "destroy"]
    /\ UNCHANGED <<plc_state, plc_program, pm_handle, plc_thread, ext, ext_closed,
                   bases_set, tables, buffer_mutex>>

\* unload_plc_program after the join: plugin_manager_destroy (dlclose of the
\* handle, free of the manager), plc_program = NULL, return 0.  A thread that
\* has not run symbols_init(pm) yet is left with a pointer to the freed
\* manager.
Destroy ==
    /\ ~crashed
    /\ UNCHANGED plugin_vars
    /\ UNCHANGED aux_vars
    /\ UNCHANGED stats_vars
    /\ cmd.pc = "destroy"
    /\ ext_closed' = IF pm_handle /= "NULL" /\ ext /= "unset" THEN TRUE ELSE ext_closed
    /\ bases_set' = FALSE
    /\ pm_handle' = "NULL"
    /\ plc_program' = "NULL"
    /\ thr' = [t \in Threads |->
                  IF thr[t].pc = "symbols_init" THEN [thr[t] EXCEPT !.freed = TRUE]
                  ELSE thr[t]]
    /\ cmd' = [cmd EXCEPT !.pc = "return", !.ret = "true"]
    /\ UNCHANGED <<plc_state, plc_thread, joinable, ext, tables, buffer_mutex, crashed>>

\* plc_set_state has returned cmd.ret to its caller; the command is answered.
Return ==
    /\ ~crashed
    /\ UNCHANGED plugin_vars
    /\ UNCHANGED aux_vars
    /\ UNCHANGED stats_vars
    /\ cmd.pc = "return"
    /\ cmd' = IdleCmd
    /\ UNCHANGED <<plc_state, plc_program, pm_handle, plc_thread, joinable, thr,
                   ext, ext_closed, bases_set, tables, buffer_mutex, crashed>>

\* ------------------------------------------------------- scan-cycle thread

\* Thread t moves to program counter l.
Goto(t, l) == thr' = [thr EXCEPT ![t].pc = l]

\* A use of pointer ext_<sym> (a call, or a read through it): defined when it
\* is resolved into an open library.  Through a NULL pointer it kills the
\* process; into a library that was closed it is undefined, and the process
\* dies or runs on.
UseExt(sym) ==
    CASE Callable(sym)  -> UNCHANGED crashed
      [] ~Resolved(sym) -> crashed' = TRUE
      [] OTHER          -> crashed' \in BOOLEAN

\* plc_cycle_thread: set_realtime_priority(); symbols_init(pm), whose return
\* value is dropped.  symbols_init overwrites every ext_* pointer with what
\* dlsym finds in pm->handle and, when none is NULL, hands the matrix bases
\* to the library.  Reading a freed pm is undefined: the process dies, the
\* handle reads as NULL, or it reads as the handle of the manager now there.
ThreadSymbolsInit(t) ==
    /\ ~crashed
    /\ UNCHANGED plugin_vars
    /\ UNCHANGED aux_vars
    /\ UNCHANGED stats_vars
    /\ thr[t].pc = "symbols_init"
    /\ \E h \in IF thr[t].freed THEN {"crash", "NULL", pm_handle} ELSE {pm_handle} :
          /\ crashed' = (h = "crash")
          /\ ext' = IF h \in {"crash", "NULL"} THEN "unset" ELSE h
          /\ ext_closed' = FALSE
          /\ bases_set' = IF h \in Artifacts /\ Missing(h) = {} THEN TRUE ELSE bases_set
    /\ thr' = [thr EXCEPT ![t] = [pc |-> "config_init", freed |-> FALSE]]
    /\ UNCHANGED <<plc_state, plc_program, pm_handle, plc_thread, joinable, tables,
                   buffer_mutex, cmd>>

\* plc_cycle_thread: ext_config_init__();
ThreadConfigInit(t) ==
    /\ ~crashed
    /\ UNCHANGED plugin_vars
    /\ UNCHANGED aux_vars
    /\ UNCHANGED stats_vars
    /\ thr[t].pc = "config_init"
    /\ UseExt("config_init__")
    /\ Goto(t, "glueVars")
    /\ UNCHANGED <<plc_state, plc_program, pm_handle, plc_thread, joinable, ext,
                   ext_closed, bases_set, tables, buffer_mutex, cmd>>

\* plc_cycle_thread: ext_glueVars(); the artifact stores the addresses of its
\* located variables through the matrix bases it was handed (undefined when
\* it has variables to bind and was handed none).
ThreadGlueVars(t) ==
    /\ ~crashed
    /\ UNCHANGED plugin_vars
    /\ UNCHANGED aux_vars
    /\ UNCHANGED stats_vars
    /\ thr[t].pc = "glueVars"
    /\ IF Callable("glueVars") /\ (bases_set \/ Binds(ext) = {})
       THEN /\ tables' = glueVars(tables, ext)
            /\ UNCHANGED crashed
       ELSE /\ IF Resolved("glueVars") /\ (bases_set \/ Binds(ext) = {})
               THEN crashed' \in BOOLEAN
               ELSE crashed' = TRUE
            /\ UNCHANGED tables
    /\ Goto(t, "publish")
    /\ UNCHANGED <<plc_state, plc_program, pm_handle, plc_thread, joinable, ext,
                   ext_closed, bases_set, buffer_mutex, cmd>>

\* plc_cycle_thread going from glueVars to its loop without the store of
\* PLC_STATE_RUNNING.
ThreadPublish_NoStore(t) ==
    /\ ~crashed
    /\ UNCHANGED plugin_vars
    /\ UNCHANGED aux_vars
    /\ scan_count' = 0
    /\ UNCHANGED <<plc_heartbeat, track_stats>>
    /\ thr[t].pc = "publish"
    /\ Goto(t, "check")
    /\ UNCHANGED <<plc_state, plc_program, pm_handle, plc_thread, joinable, ext,
                   ext_closed, bases_set, tables, buffer_mutex, cmd, crashed>>

\* plc_cycle_thread: plc_state = PLC_STATE_RUNNING under state_mutex, then
\* plc_timing_stats.scan_count = 0 and the first timer_start.
ThreadPublish(t) ==
    /\ ~crashed
    /\ UNCHANGED plugin_vars
    /\ UNCHANGED aux_vars
    /\ scan_count' = 0
    /\ UNCHANGED <<plc_heartbeat, track_stats>>
    /\ thr[t].pc = "publish"
    /\ plc_state' = PLC_STATE_RUNNING
    /\ Goto(t, "check")
    /\ UNCHANGED <<plc_program, pm_handle, plc_thread, joinable, ext, ext_closed,
                   bases_set, tables, buffer_mutex, cmd, crashed>>

\* plc_cycle_thread with a loop that does not test the state word.
ThreadCheck_NoExit(t) ==
    /\ ~crashed
    /\ UNCHANGED plugin_vars
    /\ UNCHANGED aux_vars
    /\ UNCHANGED stats_vars
    /\ thr[t].pc = "check"
    /\ UseExt("common_ticktime__")
    /\ Goto(t, "take")
    /\ UNCHANGED <<plc_state, plc_program, pm_handle, plc_thread, joinable, ext,
                   ext_closed, bases_set, tables, buffer_mutex, cmd>>

\* plc_cycle_thread: while (plc_state == PLC_STATE_RUNNING), else return
\* NULL; in the loop scan_cycle_time_start(), which reads
\* *ext_common_ticktime__ and counts the cycle.
ThreadCheck(t) ==
    /\ ~crashed
    /\ UNCHANGED plugin_vars
    /\ UNCHANGED aux_vars
    /\ UNCHANGED <<plc_heartbeat, track_stats>>
    /\ thr[t].pc = "check"
    /\ IF plc_state = PLC_STATE_RUNNING
       THEN /\ UseExt("common_ticktime__")
            /\ Goto(t, "take")
            /\ scan_count' = IF track_stats /\ scan_count < MaxScan
                             THEN scan_count + 1 ELSE scan_count
       ELSE UNCHANGED crashed /\ Goto(t, "done") /\ UNCHANGED scan_count
    /\ UNCHANGED <<plc_state, plc_program, pm_handle, plc_thread, joinable, ext,
                   ext_closed, bases_set, tables, buffer_mutex, cmd>>

\* plc_cycle_thread: plugin_mutex_take(&plugin_driver->buffer_mutex).
ThreadTake(t) ==
    /\ ~crashed
    /\ UNCHANGED plugin_vars
    /\ UNCHANGED aux_vars
    /\ UNCHANGED stats_vars
    /\ thr[t].pc = "take"
    /\ buffer_mutex = 0
    /\ buffer_mutex' = t
    /\ Goto(t, "config_run")
    /\ UNCHANGED <<plc_state, plc_program, pm_handle, plc_thread, joinable, ext,
                   ext_closed, bases_set, tables, cmd, crashed>>

\* plc_cycle_thread: ext_config_run__(tick__++);
ThreadConfigRun(t) ==
    /\ ~crashed
    /\ UNCHANGED plugin_vars
    /\ UNCHANGED aux_vars
    /\ UNCHANGED stats_vars
    /\ thr[t].pc = "config_run"
    /\ UseExt("config_run__")
    /\ Goto(t, "updateTime")
    /\ UNCHANGED <<plc_state, plc_program, pm_handle, plc_thread, joinable, ext,
                   ext_closed, bases_set, tables, buffer_mutex, cmd>>

\* plc_cycle_thread: ext_updateTime();
ThreadUpdateTime(t) ==
    /\ ~crashed
    /\ UNCHANGED plugin_vars
    /\ UNCHANGED aux_vars
    /\ UNCHANGED stats_vars
    /\ thr[t].pc = "updateTime"
    /\ UseExt("updateTime")
    /\ Goto(t, "heartbeat")
    /\ UNCHANGED <<plc_state, plc_program, pm_handle, plc_thread, joinable, ext,
                   ext_closed, bases_set, tables, buffer_mutex, cmd>>

\* plc_cycle_thread: atomic_store(&plc_heartbeat, time(NULL));
ThreadHeartbeat(t) ==
    /\ ~crashed
    /\ UNCHANGED plugin_vars
    /\ UNCHANGED aux_vars
    /\ plc_heartbeat' = IF track_stats THEN 1 ELSE plc_heartbeat
    /\ UNCHANGED <<scan_count, track_stats>>
    /\ thr[t].pc = "heartbeat"
    /\ Goto(t, "give")
    /\ UNCHANGED <<plc_state, plc_program, pm_handle, plc_thread, joinable, ext,
                   ext_closed, bases_set, tables, buffer_mutex, cmd, crashed>>

\* plc_cycle_thread: plugin_mutex_give(&plugin_driver->buffer_mutex).
ThreadGive(t) ==
    /\ ~crashed
    /\ UNCHANGED plugin_vars
    /\ UNCHANGED aux_vars
    /\ UNCHANGED stats_vars
    /\ thr[t].pc = "give"
    /\ buffer_mutex' = 0
    /\ Goto(t, "time_end")
    /\ UNCHANGED <<plc_state, plc_program, pm_handle, plc_thread, joinable, ext,
                   ext_closed, bases_set, tables, cmd, crashed>>

\* plc_cycle_thread, the rest of the iteration: scan_cycle_time_end();
\* timer_start.tv_nsec += *ext_common_ticktime__; normalize_timespec;
\* sleep_until(&timer_start).
ThreadTimeEnd(t) ==
    /\ ~crashed
    /\ UNCHANGED plugin_vars
    /\ UNCHANGED aux_vars
    /\ UNCHANGED stats_vars
    /\ thr[t].pc = "time_end"
    /\ UseExt("common_ticktime__")
    /\ Goto(t, "check")
    /\ UNCHANGED <<plc_state, plc_program, pm_handle, plc_thread, joinable, ext,
                   ext_closed, bases_set, tables, buffer_mutex, cmd>>

\* ------------------------------------------------------------ specification

Next ==
    \/ CmdStart
    \/ CmdStop
    \/ CallSetState
    \/ SetEntry
    \/ SetRunProgram
    \/ LoadInit
    \/ LoadCreate
    \/ LoadEmpty
    \/ SetError
    \/ Unload
    \/ Join
    \/ Destroy
    \/ Return
    \/ \E t \in Threads : ThreadSymbolsInit(t)
    \/ \E t \in Threads : ThreadConfigInit(t)
    \/ \E t \in Threads : ThreadGlueVars(t)
    \/ \E t \in Threads : ThreadPublish(t)
    \/ \E t \in Threads : ThreadCheck(t)
    \/ \E t \in Threads : ThreadTake(t)
    \/ \E t \in Threads : ThreadConfigRun(t)
    \/ \E t \in Threads : ThreadUpdateTime(t)
    \/ \E t \in Threads : ThreadHeartbeat(t)
    \/ \E t \in Threads : ThreadGive(t)
    \/ \E t \in Threads : ThreadTimeEnd(t)

Spec == Init /\ [][Next]_vars

\* ------------------------------------------------------------------ claims

\* Program counters of plc_cycle_thread inside its while loop.
LoopPcs == {"check", "take", "config_run", "updateTime", "heartbeat", "give",
            "time_end"}

\* plc_set_state has just returned a value to its caller.
Returned == cmd.pc = "return" /\ cmd.ret \in {"true", "false"}

\* The failures that make plc_set_state return false although the state
\* differed from the one requested.
SetStateFailures == {"notfound", "alloc", "open", "create", "noprog"}

\* C1: at most one scan-cycle thread is alive at any time, under every
\* interleaving of START, STOP and plc_set_state calls.
C1_AtMostOneScanThread == Cardinality({t \in Threads : Alive(t)}) <= 1

InvalidRequest(r) ==
    /\ r.c \in PLCState
    /\ \/ r.new_state = PLC_STATE_INIT
       \/ r.new_state = PLC_STATE_STOPPED /\ r.c /= PLC_STATE_RUNNING

\* C3: a request that is not in the transition table is rejected: every step
\* plc_set_state takes for it leaves the state word, the loaded program and
\* the scan threads as they were, and it returns false.
C3_InvalidRejected ==
    [][(cmd' /= cmd /\ cmd.pc \notin {"idle", "return"} /\ InvalidRequest(cmd'))
          => /\ plc_state' = plc_state
             /\ plc_program' = plc_program
             /\ pm_handle' = pm_handle
             /\ thr' = thr
             /\ cmd'.pc = "return" => cmd'.ret = "false"]_vars

\* C4: when plc_set_state(RUNNING) fails because the artifact cannot be
\* opened or the thread cannot be created, it returns false and the state
\* observed after the return is ERROR.
C4_LoadFailureIsError ==
    (Returned /\ cmd.fail \in {"open", "create"})
        => cmd.ret = "false" /\ plc_state = PLC_STATE_ERROR

\* The ext_* pointers were resolved from an artifact that lacks a symbol.
IncompleteArtifact == ext \in Artifacts /\ ~symbols_ok

\* C5: with an artifact that lacks a required symbol, no thread is at a call
\* of config_init__, glueVars or config_run__ through an unresolved pointer,
\* no thread is in the scan loop, and none publishes RUNNING.
C5_MissingSymbolIsLoadError ==
    \A t \in Threads :
        /\ thr[t].pc = "config_init" => Resolved("config_init__")
        /\ thr[t].pc = "glueVars" => Resolved("glueVars")
        /\ thr[t].pc = "config_run" => Resolved("config_run__")
        /\ IncompleteArtifact => thr[t].pc \notin LoopPcs \cup {"publish"}

\* C6: the artifact is closed only after the scan-cycle thread terminated:
\* no thread is at or in config_run__ or updateTime while no library is open.
C6_NoCycleAfterClose ==
    \A t \in Threads :
        thr[t].pc \in {"config_run", "updateTime"} => pm_handle /= "NULL"

\* C7: after plc_set_state(STOPPED) returned true from RUNNING every cell
\* reference of every matrix is null.
C7_NullAfterUnload ==
    (Returned /\ cmd.new_state = PLC_STATE_STOPPED /\ cmd.c = PLC_STATE_RUNNING
        /\ cmd.ret = "true")
        => \A c \in Cells : tables[c] = "null"

\* C8: from the end of bind (glueVars of a complete artifact has returned)
\* and while that artifact stays loaded, every cell reference of every matrix
\* is non-null.
C8_NonNullAfterLoad ==
    \A t \in Threads :
        (thr[t].pc \in LoopPcs \cup {"publish"} /\ pm_handle = ext
            /\ symbols_ok /\ ~ext_closed)
            => \A c \in Cells : tables[c] /= "null"

\* C9: the scan thread holds the image-table lock exactly from just before
\* the cycle_start fan-out until just after the cycle_end fan-out: through
\* config_run__ and updateTime and up to its release, and not while it
\* publishes the heartbeat, updates statistics, sleeps, or after it returned.
C9_LockDiscipline ==
    \A t \in Threads :
        /\ thr[t].pc \in {"config_run", "updateTime"} => buffer_mutex = t
        /\ thr[t].pc \in {"heartbeat", "time_end", "check", "done", "none"}
              => buffer_mutex /= t

\* C10: in every scan cycle the cycle_start hook of each enabled, running
\* native plugin that implements it has been invoked before config_run__,
\* and its cycle_end hook after updateTime, before the lock is given back.
C10_HooksAroundCycle ==
    \A t \in Threads :
        /\ (thr[t].pc = "updateTime" /\ HookTargets(driver, "cycle_start") /= <<>>)
              => hooks.cycle_start > 0
        /\ (thr[t].pc = "time_end" /\ HookTargets(driver, "cycle_end") /= <<>>)
              => hooks.cycle_end > 0

\* ------------------------------------------------------ runtime-args handle

\* image_tables.h: rows of every matrix.
BUFFER_SIZE == 1024

\* The address &driver->buffer_mutex.
DriverMutex == "driver.buffer_mutex"

\* The address of a mutex object that is not driver->buffer_mutex.
PrivateMutex == "private_mutex"

\* generate_structured_args_with_driver with a handle that carries a mutex
\* of its own instead of the driver's.
generate_structured_args_PrivateMutex(type, d, plugin_index) ==
    [type |-> type, bases |-> Matrices,
     mutex_take |-> "plugin_mutex_take", mutex_give |-> "plugin_mutex_give",
     buffer_mutex |-> PrivateMutex,
     buffer_size |-> BUFFER_SIZE, bits_per_buffer |-> 8]

\* generate_structured_args_with_driver(type, driver, plugin_index), malloc
\* having succeeded: the thirteen matrix bases, the two mutex functions, the
\* address of the driver's buffer mutex and the two sizes.
generate_structured_args_with_driver(type, d, plugin_index) ==
    [type |-> type, bases |-> Matrices,
     mutex_take |-> "plugin_mutex_take", mutex_give |-> "plugin_mutex_give",
     buffer_mutex |-> DriverMutex,
     buffer_size |-> BUFFER_SIZE, bits_per_buffer |-> 8]

\* ------------------------------------------------------------ plugin thread

\* Identity of the plugin's thread as a mutex holder (scan threads are
\* 1 .. MaxThreads).
PluginTid == MaxThreads + 1

\* The plugin's init(args) has run in plugin_driver_init and kept the
\* handle's fields.
InitialisedPluginThread ==
    [pc |-> "out",
     args |-> <<generate_structured_args_with_driver(PLUGIN_TYPE_NATIVE, driver, 1)>>]

\* The plugin thread calls args->mutex_take(args->buffer_mutex):
\* plugin_mutex_take is pthread_mutex_lock on the mutex the handle names.
PluginTake ==
    /\ ~crashed
    /\ plugin_thread.pc = "out"
    /\ plugin_thread.args[1].mutex_take = "plugin_mutex_take"
    /\ IF plugin_thread.args[1].buffer_mutex = DriverMutex
       THEN /\ buffer_mutex = 0
            /\ buffer_mutex' = PluginTid
            /\ UNCHANGED private_mutex
       ELSE /\ private_mutex = 0
            /\ private_mutex' = PluginTid
            /\ UNCHANGED buffer_mutex
    /\ plugin_thread' = [plugin_thread EXCEPT !.pc = "in"]
    /\ UNCHANGED <<plc_state, plc_program, pm_handle, plc_thread, joinable, thr, ext,
                   ext_closed, bases_set, tables, cmd, driver, hooks, crashed,
                   plc_heartbeat, scan_count, track_stats, conf, api, calls,
                   init_status, args_heap, gil, config_file, aux_vars>>

\* The plugin thread, done with the image tables, calls
\* args->mutex_give(args->buffer_mutex): pthread_mutex_unlock.
PluginGive ==
    /\ ~crashed
    /\ plugin_thread.pc = "in"
    /\ plugin_thread.args[1].mutex_give = "plugin_mutex_give"
    /\ IF plugin_thread.args[1].buffer_mutex = DriverMutex
       THEN buffer_mutex' = 0 /\ UNCHANGED private_mutex
       ELSE private_mutex' = 0 /\ UNCHANGED buffer_mutex
    /\ plugin_thread' = [plugin_thread EXCEPT !.pc = "out"]
    /\ UNCHANGED <<plc_state, plc_program, pm_handle, plc_thread, joinable, thr, ext,
                   ext_closed, bases_set, tables, cmd, driver, hooks, crashed,
                   plc_heartbeat, scan_count, track_stats, conf, api, calls,
                   init_status, args_heap, gil, config_file, aux_vars>>

\* The runtime with a started plugin that works on the image tables from a
\* thread of its own.
LockInit ==
    /\ plc_state = PLC_STATE_STOPPED
    /\ plc_program = "NULL"
    /\ pm_handle = "NULL"
    /\ plc_thread = 0
    /\ joinable = FALSE
    /\ thr = [t \in Threads |-> NoThread]
    /\ ext = "unset"
    /\ ext_closed = FALSE
    /\ bases_set = FALSE
    /\ tables = [c \in Cells |-> "null"]
    /\ buffer_mutex = 0
    /\ cmd = IdleCmd
    /\ driver = [plugin_count |-> 1, plugins |-> <<StartedNativePlugin>>]
    /\ hooks = [cycle_start |-> 0, cycle_end |-> 0]
    /\ crashed = FALSE
    /\ plugin_thread = InitialisedPluginThread
    /\ private_mutex = 0
    /\ plc_heartbeat = 0
    /\ scan_count = 0
    /\ track_stats = FALSE
    /\ conf = <<>>
    /\ api = NoCall
    /\ calls = <<>>
    /\ init_status = <<>>
    /\ args_heap = <<>>
    /\ gil = 0
    /\ config_file = "readable"
    /\ wd = NoWatchdog
    /\ timing = NoTiming
    /\ dbg = NoDebug
    /\ parse = NoParse
    /\ create = NoCreate
    /\ sl = NoStateLock
    /\ pstats = NoStats

LockNext ==
    \/ CmdStart
    \/ CmdStop
    \/ SetEntry
    \/ SetRunProgram
    \/ LoadInit
    \/ LoadCreate
    \/ LoadEmpty
    \/ SetError
    \/ Unload
    \/ Join
    \/ Destroy
    \/ Return
    \/ \E t \in Threads : ThreadSymbolsInit(t)
    \/ \E t \in Threads : ThreadConfigInit(t)
    \/ \E t \in Threads : ThreadGlueVars(t)
    \/ \E t \in Threads : ThreadPublish(t)
    \/ \E t \in Threads : ThreadCheck(t)
    \/ \E t \in Threads : ThreadTake(t)
    \/ \E t \in Threads : ThreadConfigRun(t)
    \/ \E t \in Threads : ThreadUpdateTime(t)
    \/ \E t \in Threads : ThreadHeartbeat(t)
    \/ \E t \in Threads : ThreadGive(t)
    \/ \E t \in Threads : ThreadTimeEnd(t)
    \/ PluginTake
    \/ PluginGive

LockSpec == LockInit /\ [][LockNext]_vars

\* C11: the mutex in the plugin's runtime-args handle is the mutex the scan
\* thread takes each cycle: while the plugin thread is between lock_take and
\* lock_give on its handle, no scan thread is at or inside config_run__ or
\* updateTime.
C11_PluginExcludesCycle ==
    /\ plugin_thread.args /= <<>> => plugin_thread.args[1].buffer_mutex = DriverMutex
    /\ plugin_thread.pc = "in" =>
          \A t \in Threads : thr[t].pc \notin {"config_run", "updateTime"}

\* C11 witness: the plugin thread holds the lock while a scan thread, its
\* program running, waits to take it.
C11_Witness ==
    /\ plugin_thread.pc = "in"
    /\ \E t \in Threads : thr[t].pc = "take" /\ plc_state = PLC_STATE_RUNNING

\* ---------------------------------------------------------------- cold start

\* Boot: the state after construction, with a started plugin working on the
\* image tables from its own thread, the heartbeat and the scan count part
\* of the state.
ColdInit ==
    /\ plc_state = PLC_STATE_STOPPED
    /\ plc_program = "NULL"
    /\ pm_handle = "NULL"
    /\ plc_thread = 0
    /\ joinable = FALSE
    /\ thr = [t \in Threads |-> NoThread]
    /\ ext = "unset"
    /\ ext_closed = FALSE
    /\ bases_set = FALSE
    /\ tables = [c \in Cells |-> "null"]
    /\ buffer_mutex = 0
    /\ cmd = IdleCmd
    /\ driver = [plugin_count |-> 1, plugins |-> <<StartedNativePlugin>>]
    /\ hooks = [cycle_start |-> 0, cycle_end |-> 0]
    /\ crashed = FALSE
    /\ plugin_thread = InitialisedPluginThread
    /\ private_mutex = 0
    /\ plc_heartbeat = 0
    /\ scan_count = 0
    /\ track_stats = TRUE
    /\ conf = <<>>
    /\ api = NoCall
    /\ calls = <<>>
    /\ init_status = <<>>
    /\ args_heap = <<>>
    /\ gil = 0
    /\ config_file = "readable"
    /\ wd = NoWatchdog
    /\ timing = NoTiming
    /\ dbg = NoDebug
    /\ parse = NoParse
    /\ create = NoCreate
    /\ sl = NoStateLock
    /\ pstats = NoStats

\* The one START of the scenario, sent while nothing is loaded.
ColdStart == CmdStart /\ plc_state = PLC_STATE_STOPPED /\ plc_program = "NULL"

\* The build directory holds a complete artifact: find_libplc_file,
\* plugin_manager_create and dlopen succeed.
ColdSetRunProgram == SetRunProgram /\ pm_handle' = "A_ok"

\* The host has a thread to give: pthread_create succeeds.
ColdLoadCreate == LoadCreate /\ joinable'

\* A step of the command-socket thread.
ColdCmdStep ==
    \/ ColdStart
    \/ SetEntry
    \/ ColdSetRunProgram
    \/ LoadInit
    \/ ColdLoadCreate
    \/ Return

\* A step of scan-cycle thread t.
ColdThreadStep(t) ==
    \/ ThreadSymbolsInit(t)
    \/ ThreadConfigInit(t)
    \/ ThreadGlueVars(t)
    \/ ThreadPublish(t)
    \/ ThreadCheck(t)
    \/ ThreadTake(t)
    \/ ThreadConfigRun(t)
    \/ ThreadUpdateTime(t)
    \/ ThreadHeartbeat(t)
    \/ ThreadGive(t)
    \/ ThreadTimeEnd(t)

ColdNext ==
    \/ ColdCmdStep
    \/ \E t \in Threads : ColdThreadStep(t)
    \/ PluginTake
    \/ PluginGive

\* Fair scheduling: the command thread and every scan thread keep running;
\* a plugin that took the lock gives it back; the scan thread, waiting at
\* real-time priority on the priority-inheriting mutex, gets the lock once
\* it is released.
ColdFairness ==
    /\ WF_vars(ColdCmdStep)
    /\ \A t \in Threads : WF_vars(ColdThreadStep(t))
    /\ \A t \in Threads : SF_vars(ThreadTake(t))
    /\ WF_vars(PluginGive)

ColdSpec == ColdInit /\ [][ColdNext]_vars /\ ColdFairness

CmdStep ==
    \/ CmdStart
    \/ CmdStop
    \/ SetEntry
    \/ SetRunProgram
    \/ LoadInit
    \/ LoadCreate
    \/ LoadEmpty
    \/ SetError
    \/ Unload
    \/ Join
    \/ Destroy
    \/ Return

\* START and STOP commands in any order, the scan threads and the plugin
\* thread, under fair scheduling: every thread that can run does; a plugin
\* that took the lock gives it back; a scan thread waiting for the lock at
\* real-time priority gets it.
LoopNext ==
    \/ CmdStep
    \/ \E t \in Threads : ColdThreadStep(t)
    \/ PluginTake
    \/ PluginGive

LoopFairness ==
    /\ WF_vars(CmdStep)
    /\ \A t \in Threads : WF_vars(ColdThreadStep(t))
    /\ \A t \in Threads : SF_vars(ThreadTake(t))
    /\ WF_vars(PluginGive)

LoopSpec == LockInit /\ [][LoopNext]_vars /\ LoopFairness

\* Thread t is inside an iteration: past the loop test, before the next one.
MidCycle(t) == thr[t].pc \in {"take", "config_run", "updateTime", "heartbeat",
                              "give", "time_end"}

\* C13: once the state word is not RUNNING and stays so, every scan thread
\* in the loop eventually returns (in a process that is alive: a process
\* killed by undefined behaviour has no threads left); a thread returns only
\* from the loop test at the top of an iteration, never out of a cycle it has
\* begun and never holding the image-table lock.
C13_LoopTermination ==
    /\ [][\A t \in Threads :
            thr'[t].pc = "done" /\ thr[t].pc /= "done"
                => thr[t].pc = "check" /\ ~MidCycle(t) /\ buffer_mutex /= t]_vars
    /\ <>[](plc_state /= PLC_STATE_RUNNING)
          => <>[](crashed \/ \A t \in Threads : thr[t].pc \notin LoopPcs)

\* C13 witness: STOP has stored STOPPED while the loop was running and the
\* scan thread, its cycle completed, has returned; the join may proceed.
C13_Witness ==
    /\ cmd.pc = "join" /\ cmd.c = PLC_STATE_RUNNING
    /\ plc_state = PLC_STATE_STOPPED
    /\ joinable /\ thr[plc_thread].pc = "done"
    /\ buffer_mutex /= plc_thread

\* ---------------------------------------------------------------------------
\* artifact discovery finds nothing
\* ---------------------------------------------------------------------------

\* The step of plc_set_state(RUNNING) in which find_libplc_file returns NULL.
NotFoundStep ==
    /\ cmd.pc = "run_program" /\ plc_program = "NULL"
    /\ cmd'.fail = "notfound"

\* C14: when plc_set_state(RUNNING) runs with no program chosen and
\* find_libplc_file finds no library, the call returns false, the state
\* observed when it returns is EMPTY, no artifact is opened and no scan
\* thread is spawned.
C14_NotFoundIsEmpty ==
    /\ [][NotFoundStep =>
            /\ cmd'.pc = "return" /\ cmd'.ret = "false"
            /\ plc_state' = PLC_STATE_EMPTY
            /\ UNCHANGED <<plc_program, pm_handle, ext, ext_closed,
                           plc_thread, joinable, thr>>]_vars
    /\ [](Returned /\ cmd.fail = "notfound"
            => cmd.ret = "false" /\ plc_state = PLC_STATE_EMPTY
               /\ plc_program = "NULL")

\* ---------------------------------------------------------------------------
\* the plugin driver's lifecycle operations
\* ---------------------------------------------------------------------------

\* What the file a descriptor's path names provides: whether dlopen or the
\* module import succeeds, the entry points it exports, and whether its init
\* reports success (0, or a return without a raised exception).
AllSymbols == {"init", "start_loop", "stop_loop", "cycle_start", "cycle_end", "cleanup"}
LibMissing == [loadable |-> FALSE, exports |-> {}, init_ok |-> FALSE]
LibNoInit == [loadable |-> TRUE, exports |-> {"start_loop", "stop_loop"}, init_ok |-> FALSE]
LibFull == [loadable |-> TRUE, exports |-> AllSymbols, init_ok |-> TRUE]
LibInitFails == [loadable |-> TRUE, exports |-> AllSymbols, init_ok |-> FALSE]
LibCycleOnly == [loadable |-> TRUE, exports |-> {"init", "cycle_start"}, init_ok |-> TRUE]
LibNoStop ==
    [loadable |-> TRUE, exports |-> {"init", "start_loop", "cycle_end"}, init_ok |-> TRUE]

\* plugin_config_t as parse_plugin_config delivers it (enabled, type), with
\* the file behind its path.
Descriptor(e, t, l) == [enabled |-> e, type |-> t, lib |-> l]

Descriptors ==
    {Descriptor(TRUE, PLUGIN_TYPE_NATIVE, l) :
        l \in {LibMissing, LibNoInit, LibFull, LibInitFails, LibCycleOnly, LibNoStop}}
    \cup {Descriptor(TRUE, PLUGIN_TYPE_PYTHON, l) : l \in {LibMissing, LibFull, LibInitFails}}
    \cup {Descriptor(FALSE, PLUGIN_TYPE_NATIVE, l) : l \in {LibMissing, LibFull}}
    \cup {Descriptor(FALSE, PLUGIN_TYPE_PYTHON, LibFull)}

\* The descriptor files: up to MaxPlugins descriptors.
Configs == UNION {[1 .. n -> Descriptors] : n \in 0 .. MaxPlugins}

\* A plugin_instance_t of the calloc'ed driver with a descriptor copied in.
NewInstance(c) ==
    [enabled |-> c.enabled, type |-> c.type, running |-> FALSE,
     python_plugin |-> <<>>, native_plugin |-> <<>>]

\* plugin_driver_update_config: -1 with the driver untouched when the file
\* is neither there nor copied from the default, or parse_plugin_config
\* cannot open it; else plugin_count and the config member of each instance
\* are overwritten, the other members keep what they held, and 0.
plugin_driver_update_config(d, c, file) ==
    IF file /= "readable"
    THEN [ret |-> -1, driver |-> d]
    ELSE [ret |-> 0,
          driver |->
            [plugin_count |-> Len(c),
             plugins |-> [w \in 1 .. Len(c) |->
                            IF w <= Len(d.plugins)
                            THEN [d.plugins[w] EXCEPT !.enabled = c[w].enabled,
                                                      !.type = c[w].type]
                            ELSE NewInstance(c[w])]]]

\* native_plugin_get_symbols: dlopen, init required, the rest optional.
native_plugin_get_symbols(plugin, lib) ==
    IF ~lib.loadable \/ "init" \notin lib.exports
    THEN [ret |-> -1, plugin |-> plugin]
    ELSE [ret |-> 0,
          plugin |-> [plugin EXCEPT !.native_plugin =
                        <<[init |-> TRUE,
                           start |-> "start_loop" \in lib.exports,
                           stop |-> "stop_loop" \in lib.exports,
                           cycle_start |-> "cycle_start" \in lib.exports,
                           cycle_end |-> "cycle_end" \in lib.exports,
                           cleanup |-> "cleanup" \in lib.exports]>>]]

\* python_plugin_get_symbols: import, init required, the rest optional.
python_plugin_get_symbols(plugin, lib) ==
    IF ~lib.loadable \/ "init" \notin lib.exports
    THEN [ret |-> -1, plugin |-> plugin]
    ELSE [ret |-> 0,
          plugin |-> [plugin EXCEPT !.python_plugin =
                        <<[pFuncInit |-> TRUE,
                           pFuncStart |-> "start_loop" \in lib.exports,
                           pFuncStop |-> "stop_loop" \in lib.exports,
                           pFuncCleanup |-> "cleanup" \in lib.exports,
                           args_capsule |-> <<>>]>>]]

\* The loop of plugin_driver_load_config from index i on.
RECURSIVE load_config_from(_, _, _)
load_config_from(d, c, i) ==
    IF i > d.plugin_count
    THEN [ret |-> 0, driver |-> d]
    ELSE LET plugin == d.plugins[i]
             r == IF plugin.type = PLUGIN_TYPE_PYTHON
                  THEN python_plugin_get_symbols(plugin, c[i].lib)
                  ELSE native_plugin_get_symbols(plugin, c[i].lib)
         IN IF r.ret /= 0
            THEN [ret |-> -1, driver |-> d]
            ELSE load_config_from([d EXCEPT !.plugins[i] = r.plugin], c, i + 1)

\* plugin_driver_load_config(driver, config_file): the value that
\* plugin_driver_update_config returns is not read.
plugin_driver_load_config(d, c, file) ==
    load_config_from(plugin_driver_update_config(d, c, file).driver, c, 1)

\* The loop of plugin_driver_init from index i on, entered after
\* PyGILState_Ensure; called lists the init calls made so far, st what each
\* returned and hp the handles malloc'ed for them. gstate is 0 on a return
\* that follows PyGILState_Release(local_gstate), 1 on a return without it.
RECURSIVE init_from(_, _, _, _, _, _)
init_from(d, c, i, called, st, hp) ==
    IF i > d.plugin_count
    THEN [ret |-> 0, driver |-> d, calls |-> called, status |-> st, heap |-> hp,
          gstate |-> 0]
    ELSE LET plugin == d.plugins[i]
             ok == c[i].lib.init_ok
             now == Append(called, <<"init", i>>)
             st2 == [st EXCEPT ![i] = IF ok THEN "ok" ELSE "failed"]
             kept == [hp EXCEPT ![i] = "allocated"]
             freed == [hp EXCEPT ![i] = "freed"]
         IN CASE ~plugin.enabled -> init_from(d, c, i + 1, called, st, hp)
              [] /\ plugin.enabled
                 /\ plugin.type = PLUGIN_TYPE_PYTHON
                 /\ plugin.python_plugin /= <<>>
                 /\ plugin.python_plugin[1].pFuncInit ->
                    LET args == generate_structured_args_with_driver(PLUGIN_TYPE_PYTHON, d, i)
                        d2 == [d EXCEPT !.plugins[i].python_plugin[1].args_capsule = <<args>>]
                    IN \* the capsule holding the handle is kept in args_capsule
                       IF ok THEN init_from(d2, c, i + 1, now, st2, kept)
                       ELSE [ret |-> -1, driver |-> d2, calls |-> now, status |-> st2,
                             heap |-> kept, gstate |-> 0]
              [] /\ plugin.enabled
                 /\ plugin.type = PLUGIN_TYPE_NATIVE
                 /\ plugin.native_plugin /= <<>>
                 /\ plugin.native_plugin[1].init ->
                    \* free_structured_args(args) on either outcome of init
                    IF ok THEN init_from(d, c, i + 1, now, st2, freed)
                    ELSE [ret |-> -1, driver |-> d, calls |-> now, status |-> st2,
                          heap |-> freed, gstate |-> 1]
              [] OTHER -> init_from(d, c, i + 1, called, st, hp)

\* plugin_driver_init(driver)
plugin_driver_init(d, c, hp) ==
    init_from(d, c, 1, <<>>, [i \in 1 .. d.plugin_count |-> "none"], hp)

\* The loop of plugin_driver_start from index i on.
RECURSIVE start_from(_, _, _)
start_from(d, i, called) ==
    IF i > d.plugin_count
    THEN [ret |-> 0, driver |-> d, calls |-> called]
    ELSE LET plugin == d.plugins[i]
             has_start ==
                CASE plugin.type = PLUGIN_TYPE_PYTHON ->
                        plugin.python_plugin /= <<>> /\ plugin.python_plugin[1].pFuncStart
                  [] plugin.type = PLUGIN_TYPE_NATIVE ->
                        plugin.native_plugin /= <<>> /\ plugin.native_plugin[1].start
                  [] OTHER -> FALSE
         IN IF plugin.enabled /\ has_start
            THEN start_from([d EXCEPT !.plugins[i].running = TRUE], i + 1,
                            Append(called, <<"start_loop", i>>))
            ELSE start_from(d, i + 1, called)

\* plugin_driver_start(driver)
plugin_driver_start(d) == start_from(d, 1, <<>>)

\* The loop of plugin_driver_stop from index i on.
RECURSIVE stop_from(_, _, _)
stop_from(d, i, called) ==
    IF i > d.plugin_count
    THEN [ret |-> 0, driver |-> d, calls |-> called]
    ELSE LET plugin == d.plugins[i]
             stopped == stop_from([d EXCEPT !.plugins[i].running = FALSE], i + 1,
                                  Append(called, <<"stop_loop", i>>))
         IN CASE /\ plugin.python_plugin /= <<>>
                 /\ plugin.python_plugin[1].pFuncStop
                 /\ plugin.running ->
                    IF ~plugin.enabled THEN stop_from(d, i + 1, called) ELSE stopped
              [] /\ ~(/\ plugin.python_plugin /= <<>>
                      /\ plugin.python_plugin[1].pFuncStop
                      /\ plugin.running)
                 /\ plugin.native_plugin /= <<>>
                 /\ plugin.native_plugin[1].stop
                 /\ plugin.running -> stopped
              [] OTHER -> stop_from(d, i + 1, called)

\* plugin_driver_stop(driver)
plugin_driver_stop(d) == stop_from(d, 1, <<>>)

\* static int has_python_plugin, as plugin_driver_update_config leaves it:
\* some descriptor copied into the driver is of type PYTHON.
has_python_plugin(d) ==
    \E w \in 1 .. d.plugin_count : d.plugins[w].type = PLUGIN_TYPE_PYTHON

\* The cleanup loop of plugin_driver_restart from index i on:
\* python_plugin_cleanup on every instance that holds python binds.
RECURSIVE restart_cleanup_from(_, _, _, _)
restart_cleanup_from(d, i, called, hp) ==
    IF i > d.plugin_count
    THEN [driver |-> d, calls |-> called, heap |-> hp]
    ELSE LET plugin == d.plugins[i] IN
         IF plugin.python_plugin /= <<>>
         THEN restart_cleanup_from(
                  [d EXCEPT !.plugins[i].python_plugin = <<>>], i + 1,
                  IF plugin.python_plugin[1].pFuncCleanup
                  THEN Append(called, <<"cleanup", i>>) ELSE called,
                  \* Py_XDECREF(args_capsule): the capsule destructor frees the handle
                  IF plugin.python_plugin[1].args_capsule /= <<>>
                  THEN [hp EXCEPT ![i] = "freed"] ELSE hp)
         ELSE restart_cleanup_from(d, i + 1, called, hp)

\* plugin_driver_restart(driver): stop, cleanup, load_config("plugins.conf"),
\* init, start; st is the init status known before the call.
plugin_driver_restart(d, c, st, hp, file) ==
    LET s1 == plugin_driver_stop(d)
        s2 == IF has_python_plugin(s1.driver)
              THEN restart_cleanup_from(s1.driver, 1, s1.calls, hp)
              ELSE [driver |-> s1.driver, calls |-> s1.calls, heap |-> hp]
        s3 == plugin_driver_load_config(s2.driver, c, file)
        s4 == plugin_driver_init(s3.driver, c, s2.heap)
        s5 == plugin_driver_start(s4.driver)
    IN CASE s3.ret /= 0 ->
               [ret |-> -1, driver |-> s3.driver, calls |-> s2.calls, status |-> st,
                heap |-> s2.heap, gstate |-> 0]
         [] s3.ret = 0 /\ s4.ret /= 0 ->
               [ret |-> -1, driver |-> s4.driver, calls |-> s2.calls \o s4.calls,
                status |-> s4.status, heap |-> s4.heap, gstate |-> s4.gstate]
         [] OTHER ->
               [ret |-> 0, driver |-> s5.driver,
                calls |-> s2.calls \o s4.calls \o s5.calls, status |-> s4.status,
                heap |-> s4.heap, gstate |-> s4.gstate]

\* The calls a fan-out made: hook h on each of the plugins in targets.
Fanout(h, targets) == [k \in 1 .. Len(targets) |-> <<h, targets[k]>>]

\* The untouched variables of the scan cycle and the command thread.
core_vars == <<plc_state, plc_program, pm_handle, plc_thread, joinable, thr, ext,
               ext_closed, bases_set, tables, buffer_mutex, cmd, crashed,
               plugin_thread, private_mutex, plc_heartbeat, scan_count, track_stats,
               aux_vars>>

\* The caller runs plugin_driver_load_config on the created driver.
PdLoadConfig ==
    /\ api.phase = "created"
    /\ LET r == plugin_driver_load_config(driver, conf, config_file) IN
          /\ driver' = r.driver
          /\ api' = [op |-> "load_config", ret |-> r.ret, phase |-> "loaded"]
          /\ init_status' = [i \in 1 .. r.driver.plugin_count |-> "none"]
          /\ args_heap' = [i \in 1 .. r.driver.plugin_count |-> "none"]
    /\ calls' = <<>>
    /\ UNCHANGED <<conf, hooks, gil, config_file>>
    /\ UNCHANGED core_vars

\* The caller runs plugin_driver_init.
PdInit ==
    /\ api.phase = "loaded"
    /\ LET r == plugin_driver_init(driver, conf, args_heap) IN
          /\ driver' = r.driver
          /\ api' = [op |-> "init", ret |-> r.ret, phase |-> "inited"]
          /\ calls' = r.calls
          /\ init_status' = r.status
          /\ args_heap' = r.heap
          /\ gil' = gil + r.gstate
    /\ UNCHANGED <<conf, hooks, config_file>>
    /\ UNCHANGED core_vars

\* The caller runs plugin_driver_start.
PdStart ==
    /\ api.phase \in {"inited", "stopped"}
    /\ LET r == plugin_driver_start(driver) IN
          /\ driver' = r.driver
          /\ api' = [op |-> "start", ret |-> r.ret, phase |-> "started"]
          /\ calls' = r.calls
    /\ UNCHANGED <<conf, hooks, init_status, args_heap, gil, config_file>>
    /\ UNCHANGED core_vars

\* The caller runs plugin_driver_stop.
PdStop ==
    /\ api.phase \in {"inited", "started", "stopped"}
    /\ LET r == plugin_driver_stop(driver) IN
          /\ driver' = r.driver
          /\ api' = [op |-> "stop", ret |-> r.ret, phase |-> "stopped"]
          /\ calls' = r.calls
    /\ UNCHANGED <<conf, hooks, init_status, args_heap, gil, config_file>>
    /\ UNCHANGED core_vars

\* The caller runs plugin_driver_restart (at most MaxGil interpreter locks
\* are followed).
PdRestart ==
    /\ api.phase \in {"inited", "started", "stopped"}
    /\ gil < MaxGil
    /\ LET r == plugin_driver_restart(driver, conf, init_status, args_heap, config_file) IN
          /\ driver' = r.driver
          /\ api' = [op |-> "restart", ret |-> r.ret,
                     phase |-> IF r.ret = 0 THEN "started" ELSE "stopped"]
          /\ calls' = r.calls
          /\ init_status' = r.status
          /\ args_heap' = r.heap
          /\ gil' = gil + r.gstate
    /\ UNCHANGED <<conf, hooks, config_file>>
    /\ UNCHANGED core_vars

\* The caller runs plugin_driver_cycle_start.
PdCycleStart ==
    /\ api.phase \in {"inited", "started", "stopped"}
    /\ hooks.cycle_start < MaxHooks
    /\ plugin_driver_cycle_start
    /\ calls' = Fanout("cycle_start", HookTargets(driver, "cycle_start"))
    /\ api' = [api EXCEPT !.op = "cycle_start", !.ret = 0]
    /\ UNCHANGED <<conf, init_status, args_heap, gil, config_file>>
    /\ UNCHANGED core_vars

\* The caller runs plugin_driver_cycle_end.
PdCycleEnd ==
    /\ api.phase \in {"inited", "started", "stopped"}
    /\ hooks.cycle_end < MaxHooks
    /\ plugin_driver_cycle_end
    /\ calls' = Fanout("cycle_end", HookTargets(driver, "cycle_end"))
    /\ api' = [api EXCEPT !.op = "cycle_end", !.ret = 0]
    /\ UNCHANGED <<conf, init_status, args_heap, gil, config_file>>
    /\ UNCHANGED core_vars

\* A driver fresh from plugin_driver_create, and a descriptor file.
PluginInit ==
    /\ plc_state = PLC_STATE_STOPPED
    /\ plc_program = "NULL"
    /\ pm_handle = "NULL"
    /\ plc_thread = 0
    /\ joinable = FALSE
    /\ thr = [t \in Threads |-> NoThread]
    /\ ext = "unset"
    /\ ext_closed = FALSE
    /\ bases_set = FALSE
    /\ tables = [c \in Cells |-> "null"]
    /\ buffer_mutex = 0
    /\ cmd = IdleCmd
    /\ driver = [plugin_count |-> 0, plugins |-> <<>>]
    /\ hooks = [cycle_start |-> 0, cycle_end |-> 0]
    /\ crashed = FALSE
    /\ plugin_thread = NoPluginThread
    /\ private_mutex = 0
    /\ plc_heartbeat = 0
    /\ scan_count = 0
    /\ track_stats = FALSE
    /\ conf \in Configs
    /\ api = NoCall
    /\ calls = <<>>
    /\ init_status = <<>>
    /\ args_heap = <<>>
    /\ gil = 0
    /\ config_file = "readable"
    /\ wd = NoWatchdog
    /\ timing = NoTiming
    /\ dbg = NoDebug
    /\ parse = NoParse
    /\ create = NoCreate
    /\ sl = NoStateLock
    /\ pstats = NoStats

PluginNext ==
    \/ PdLoadConfig
    \/ PdInit
    \/ PdStart
    \/ PdStop
    \/ PdRestart
    \/ PdCycleStart
    \/ PdCycleEnd

PluginSpec == PluginInit /\ [][PluginNext]_vars

\* Number of entries of the call list that are function f on plugin i.
Count(f, i) == Cardinality({k \in 1 .. Len(calls) : calls[k] = <<f, i>>})

\* Plugin i is enabled and its init was called and reported success.
InitSucceeded(i) == conf[i].enabled /\ init_status[i] = "ok"

\* C15: after plugin_driver_start returns, every enabled plugin whose init
\* succeeded is marked running, with or without a start_loop; a cycle_start
\* fan-out that follows calls cycle_start exactly once on each such native
\* plugin that exports cycle_start.
C15_StartMarksRunning ==
    /\ [](api.op = "start" =>
            \A i \in 1 .. driver.plugin_count :
                InitSucceeded(i) => driver.plugins[i].running)
    /\ [][api.phase = "started" /\ api'.op = "cycle_start" =>
            \A i \in 1 .. driver.plugin_count :
                /\ InitSucceeded(i)
                /\ conf[i].type = PLUGIN_TYPE_NATIVE
                /\ "cycle_start" \in conf[i].lib.exports
                => Cardinality({k \in 1 .. Len(calls') : calls'[k] = <<"cycle_start", i>>}) = 1]_vars

\* C16: a plugin whose init failed in plugin_driver_init is never marked
\* running, and a plugin_driver_start that follows does not call its
\* start_loop.
C16_FailedInitNotStarted ==
    \A i \in 1 .. driver.plugin_count :
        init_status[i] = "failed" =>
            /\ ~driver.plugins[i].running
            /\ Count("start_loop", i) = 0

\* The file of descriptor i can be loaded and exports init.
Resolvable(i) == conf[i].lib.loadable /\ "init" \in conf[i].lib.exports

\* Instance i holds a resolved symbol set.
SymbolsResolved(i) ==
    driver.plugins[i].native_plugin /= <<>> \/ driver.plugins[i].python_plugin /= <<>>

\* C17: a failure of symbol resolution or of init for one descriptor leaves
\* the others untouched: when plugin_driver_load_config has returned, every
\* enabled descriptor whose file is loadable and exports init has its symbols
\* resolved, and when plugin_driver_init has returned, init was called once
\* on each of them.
C17_ErrorsIsolated ==
    \A i \in 1 .. driver.plugin_count :
        conf[i].enabled /\ Resolvable(i) =>
            /\ api.op = "load_config" => SymbolsResolved(i)
            /\ api.op = "init" => Count("init", i) = 1

\* C18: a descriptor with enabled = 0 is inert: its symbol set is never
\* resolved, none of init, start_loop, cycle_start and cycle_end is called
\* on it, and plugin_driver_load_config does not fail when every enabled
\* descriptor can be resolved.
C18_DisabledInert ==
    /\ \A i \in 1 .. driver.plugin_count :
          ~conf[i].enabled =>
              /\ ~SymbolsResolved(i)
              /\ \A f \in {"init", "start_loop", "cycle_start", "cycle_end"} :
                    Count(f, i) = 0
    /\ (/\ api.op = "load_config"
        /\ \A i \in 1 .. Len(conf) : conf[i].enabled => Resolvable(i))
          => api.ret = 0

\* Plugin i is one a fan-out of hook h has to call, judged from the
\* descriptor file, the library and the running flag before the call.
MustCall(h, i) ==
    /\ conf[i].enabled
    /\ driver.plugins[i].running
    /\ conf[i].type = PLUGIN_TYPE_NATIVE
    /\ h \in conf[i].lib.exports

\* C19: each plugin_driver_cycle_start (resp. plugin_driver_cycle_end) calls
\* the hook of plugin p exactly once if p is enabled, running, NATIVE and
\* exports the hook, and not at all otherwise, and calls nothing else; the
\* plugins are visited in descriptor order; a script plugin gets no hook.
C19_FanOut ==
    [][\A h \in {"cycle_start", "cycle_end"} :
          api'.op = h =>
              /\ \A i \in 1 .. driver.plugin_count :
                    Cardinality({k \in 1 .. Len(calls') : calls'[k] = <<h, i>>})
                        = IF MustCall(h, i) THEN 1 ELSE 0
              /\ \A k \in 1 .. Len(calls') :
                    /\ calls'[k][1] = h
                    /\ calls'[k][2] \in 1 .. driver.plugin_count
                    /\ conf[calls'[k][2]].type /= PLUGIN_TYPE_PYTHON
              /\ \A k, l \in 1 .. Len(calls') : k < l => calls'[k][2] < calls'[l][2]
              /\ hooks'[h] = hooks[h] + Len(calls')
              /\ driver' = driver]_vars

\* C19 witness: a cycle_start fan-out over two started plugins, a script
\* plugin first and a native one with the hook second, has called the
\* native plugin's hook and nothing else.
C19_Witness ==
    /\ api.op = "cycle_start" /\ api.phase = "started"
    /\ driver.plugin_count = 2
    /\ driver.plugins[1].type = PLUGIN_TYPE_PYTHON /\ driver.plugins[1].running
    /\ driver.plugins[2].type = PLUGIN_TYPE_NATIVE /\ driver.plugins[2].running
    /\ calls = <<<<"cycle_start", 2>>>>

\* C20: when plugin_driver_stop has returned no plugin is running, so a
\* fan-out that follows calls no hook; the call invoked stop_loop once on
\* each plugin that was running and exports it, and on no other plugin.
C20_StopStopsAll ==
    /\ [](api.phase = "stopped" =>
            /\ \A i \in 1 .. driver.plugin_count : ~driver.plugins[i].running
            /\ api.op \in {"cycle_start", "cycle_end"} => calls = <<>>)
    /\ [][api'.op = "stop" =>
            \A i \in 1 .. driver.plugin_count :
                Cardinality({k \in 1 .. Len(calls') : calls'[k] = <<"stop_loop", i>>})
                    = IF driver.plugins[i].running /\ "stop_loop" \in conf[i].lib.exports
                      THEN 1 ELSE 0]_vars

\* Position of a plugin function in the order restart has to follow.
RestartRank(f) ==
    CASE f = "stop_loop" -> 1 [] f = "cleanup" -> 2 [] f = "init" -> 3
      [] f = "start_loop" -> 4 [] OTHER -> 0

\* C21: plugin_driver_restart calls stop_loop, then cleanup, then init, then
\* start_loop, in this order, and the cleanup covers every instance that
\* was loaded before the restart, native and script alike: each one that
\* exports cleanup has it called once before the reload.
C21_RestartOrder ==
    [][api'.op = "restart" =>
          /\ \A k, l \in 1 .. Len(calls') :
                k < l => RestartRank(calls'[k][1]) <= RestartRank(calls'[l][1])
          /\ \A i \in 1 .. driver.plugin_count :
                SymbolsResolved(i) /\ "cleanup" \in conf[i].lib.exports =>
                    Cardinality({k \in 1 .. Len(calls') : calls'[k] = <<"cleanup", i>>}) = 1]_vars

\* C22: the runtime-args handle given to a plugin's init stays allocated as
\* long as the plugin instance exists, for native and script plugins alike:
\* while an instance whose init was called holds its symbol set, its handle
\* has not been freed.
C22_HandleOutlivesInit ==
    \A i \in 1 .. driver.plugin_count :
        init_status[i] /= "none" /\ SymbolsResolved(i) => args_heap[i] = "allocated"

\* ---------------------------------------------------------------------------
\* the watchdog
\* ---------------------------------------------------------------------------

\* Everything but the state word, the heartbeat and the watchdog.
wd_frame == <<plc_program, pm_handle, plc_thread, joinable, thr, ext, ext_closed,
              bases_set, tables, buffer_mutex, cmd, driver, hooks, crashed,
              plugin_thread, private_mutex, scan_count, track_stats, conf, api,
              calls, init_status, args_heap, gil, config_file, timing, dbg, parse, create,
        sl,
        pstats>>

\* The scan loop, entered while the state is RUNNING, stores a later
\* time(NULL) in plc_heartbeat.
HeartbeatStore ==
    /\ ~wd.exited
    /\ plc_state = PLC_STATE_RUNNING
    /\ plc_heartbeat < MaxBeat
    /\ plc_heartbeat' = plc_heartbeat + 1
    /\ UNCHANGED <<plc_state, wd>>
    /\ UNCHANGED wd_frame

\* plc_set_state or the scan thread stores another value in the state word.
StateStore ==
    /\ ~wd.exited
    /\ \E new_state \in PLCState :
          /\ new_state /= plc_state
          /\ plc_state' = new_state
    /\ UNCHANGED <<plc_heartbeat, wd>>
    /\ UNCHANGED wd_frame

\* watchdog_thread: sleep(2) returns; plc_get_state() != PLC_STATE_RUNNING
\* continues the loop, with last as it was.
WatchdogWake ==
    /\ ~wd.exited
    /\ wd.pc = "sleep"
    /\ wd' = IF plc_state /= PLC_STATE_RUNNING
             THEN [wd EXCEPT !.seen = plc_state, !.prev = plc_heartbeat]
             ELSE [wd EXCEPT !.seen = plc_state, !.pc = "load"]
    /\ UNCHANGED <<plc_state, plc_heartbeat>>
    /\ UNCHANGED wd_frame

\* watchdog_thread: now = atomic_load(&plc_heartbeat); exit if now == last,
\* else last = now.
WatchdogCompare ==
    /\ ~wd.exited
    /\ wd.pc = "load"
    /\ wd' = IF plc_heartbeat = wd.last
             THEN [wd EXCEPT !.pc = "exit", !.exited = TRUE, !.prev = plc_heartbeat]
             ELSE [wd EXCEPT !.pc = "sleep", !.last = plc_heartbeat,
                             !.prev = plc_heartbeat]
    /\ UNCHANGED <<plc_state, plc_heartbeat>>
    /\ UNCHANGED wd_frame

WatchdogNext ==
    \/ HeartbeatStore
    \/ StateStore
    \/ WatchdogWake
    \/ WatchdogCompare

\* The watchdog started with the program: Init is the state it starts in.
WatchdogSpec == Init /\ [][WatchdogNext]_vars

\* C23: the watchdog terminates the process at a sample exactly if the state
\* it read at that sample is RUNNING and the heartbeat equals the value at
\* the sample before; at a sample where the state is not RUNNING it never
\* terminates the process.
C23_WatchdogExit ==
    /\ [][wd.pc = "load" /\ wd'.pc /= "load" =>
            (wd'.exited <=> plc_heartbeat = wd.prev)]_vars
    /\ [][wd.pc = "sleep" /\ wd'.seen /= PLC_STATE_RUNNING => ~wd'.exited]_vars
    /\ [](wd.exited => wd.seen = PLC_STATE_RUNNING)

\* ---------------------------------------------------------------------------
\* scan-cycle timing
\* ---------------------------------------------------------------------------

\* Everything but scan_count and timing.
timing_frame == <<plc_state, plc_program, pm_handle, plc_thread, joinable, thr, ext,
                  ext_closed, bases_set, tables, buffer_mutex, cmd, driver, hooks,
                  crashed, plugin_thread, private_mutex, plc_heartbeat, track_stats,
                  conf, api, calls, init_status, args_heap, gil, config_file, wd, dbg, parse,
                  create,
        sl,
        pstats>>

\* scan_cycle_time_end with an overrun test that is not strict.
scan_cycle_time_end_NotStrict(tm, now_us) ==
    [tm EXCEPT !.overruns = IF now_us >= tm.expected_start_us THEN @ + 1 ELSE @]

\* scan_cycle_time_start on the statics tm with scan_count n at time now_us
\* (the minimum, maximum and average statistics are not part of the model).
scan_cycle_time_start(tm, n, now_us) ==
    IF n = 0
    THEN [tm EXCEPT !.expected_start_us = now_us + Tick, !.last_start_us = now_us]
    ELSE [tm EXCEPT !.last_start_us = now_us, !.expected_start_us = @ + Tick]

\* scan_cycle_time_end on the statics tm at time now_us.
scan_cycle_time_end(tm, now_us) ==
    [tm EXCEPT !.overruns = IF now_us > tm.expected_start_us THEN @ + 1 ELSE @]

\* clock_gettime(CLOCK_MONOTONIC, ts) at time now_us.
clock_gettime(now_us) == [tv_sec |-> now_us \div Second, tv_nsec |-> now_us % Second]

\* The time a struct timespec stands for.
TimeOf(ts) == ts.tv_sec * Second + ts.tv_nsec

\* normalize_timespec that drops the seconds it takes out of tv_nsec.
normalize_timespec_NoCarry(ts) == [ts EXCEPT !.tv_nsec = @ % Second]

\* normalize_timespec: while tv_nsec is a second or more, a second is moved
\* from tv_nsec to tv_sec.
RECURSIVE normalize_timespec(_)
normalize_timespec(ts) ==
    IF ts.tv_nsec >= Second
    THEN normalize_timespec([tv_sec |-> ts.tv_sec + 1, tv_nsec |-> ts.tv_nsec - Second])
    ELSE ts

\* plc_cycle_thread publishes RUNNING, resets scan_count and reads the clock
\* into timer_start: a run begins.
TimingRunBegins ==
    /\ timing.pc \in {"idle", "sleep"}
    /\ timing.runs < MaxRuns
    /\ scan_count' = 0
    /\ timing' = [timing EXCEPT !.pc = "start", !.started = 0, !.slow = TRUE,
                                !.base = timing.overruns, !.runs = @ + 1,
                                !.timer_start = clock_gettime(timing.now),
                                !.t0 = timing.now]
    /\ UNCHANGED timing_frame

\* The loop calls scan_cycle_time_start.
TimingCycleStart ==
    /\ timing.pc = "start"
    /\ scan_count < MaxScan
    /\ scan_count' = scan_count + 1
    /\ timing' = [scan_cycle_time_start(timing, scan_count, timing.now) EXCEPT
                     !.pc = "body",
                     !.started = @ + 1,
                     !.deadline = IF timing.started = 0 THEN timing.now + Tick
                                  ELSE @ + Tick]
    /\ UNCHANGED timing_frame

\* The lock, config_run__ and updateTime take d clock units; then the loop
\* calls scan_cycle_time_end, adds the tick time to timer_start and
\* normalises it.
TimingCycleEnd ==
    /\ timing.pc = "body"
    /\ \E d \in 0 .. MaxBody :
          timing' = [scan_cycle_time_end([timing EXCEPT !.now = @ + d], timing.now + d)
                        EXCEPT !.pc = "sleep",
                               !.slow = @ /\ d > Tick,
                               !.timer_start =
                                   normalize_timespec([@ EXCEPT !.tv_nsec = @ + Tick])]
    /\ UNCHANGED scan_count
    /\ UNCHANGED timing_frame

\* sleep_until(&timer_start) returns after d clock units (clock_nanosleep may
\* return before the deadline on a signal, or at once when the deadline has
\* passed) and the loop test finds RUNNING.
TimingSleep ==
    /\ timing.pc = "sleep"
    /\ \E d \in 0 .. MaxSleep :
          timing' = [timing EXCEPT !.pc = "start", !.now = @ + d]
    /\ UNCHANGED scan_count
    /\ UNCHANGED timing_frame

TimingNext ==
    \/ TimingRunBegins
    \/ TimingCycleStart
    \/ TimingCycleEnd
    \/ TimingSleep

TimingSpec == Init /\ [][TimingNext]_vars

\* C24: in every cycle overruns goes up by one exactly if the cycle's end is
\* later than its expected start plus T (the expected start of the first
\* cycle of a run being its actual start, of each later one that of its
\* predecessor plus T) and is otherwise unchanged; scan_count is the number
\* of cycles started in the run; when every cycle took longer than T, every
\* cycle ended so far in the run is an overrun.
C24_Overruns ==
    /\ [][timing'.overruns =
            IF timing.pc = "body" /\ timing'.pc = "sleep" /\ timing'.now > timing.deadline
            THEN timing.overruns + 1 ELSE timing.overruns]_vars
    /\ [](timing.pc /= "idle" => scan_count = timing.started)
    /\ [](timing.pc = "sleep" /\ timing.slow =>
            timing.overruns - timing.base = scan_count)

\* C24 witness: a run in its third cycle, after one cycle that ended exactly
\* at its deadline and one that ended later.
C24_Witness ==
    /\ timing.pc = "body" /\ scan_count = 3
    /\ timing.overruns - timing.base = 1
    /\ timing.now = timing.last_start_us

\* ---------------------------------------------------------------------------
\* the debug handler: GET_TRACE
\* ---------------------------------------------------------------------------

MAX_DEBUG_FRAME == 4096
MB_FC_DEBUG_GET == 67
MB_DEBUG_SUCCESS == 126
MB_DEBUG_ERROR_OUT_OF_BOUNDS == 129

\* What ext_get_var_size may return for a variable, in bytes.
VarSizes == {1, 8, 2043, 4086, 4087}

\* The two bytes a uint16_t field is stored in, and the value read back.
HighByte(v) == (v \div 256) % 256
LowByte(v) == v % 256
Field16(frame, k) == frame[k] * 256 + frame[k + 1]

\* debugGetTrace with a bound that forgets the ten header bytes.
RECURSIVE GetTraceLoop_NoHeader(_, _, _, _, _)
GetTraceLoop_NoHeader(sizes, varidx, endidx, responseSize, packed) ==
    IF varidx > endidx \/ responseSize + sizes[varidx + 1] > MAX_DEBUG_FRAME
    THEN [responseSize |-> responseSize, packed |-> packed]
    ELSE GetTraceLoop_NoHeader(sizes, varidx + 1, endidx,
                               responseSize + sizes[varidx + 1], Append(packed, varidx))

debugGetTrace_NoHeader(sizes, startidx, endidx) ==
    IF startidx >= Len(sizes) \/ endidx >= Len(sizes) \/ startidx > endidx
    THEN [frame_len |-> 2, frame |-> <<MB_FC_DEBUG_GET, MB_DEBUG_ERROR_OUT_OF_BOUNDS>>,
          packed |-> <<>>]
    ELSE LET r == GetTraceLoop_NoHeader(sizes, startidx, endidx, 0, <<>>)
             lastVarIdx == IF r.packed = <<>> THEN startidx ELSE r.packed[Len(r.packed)]
         IN [frame_len |-> 10 + r.responseSize,
             frame |-> <<MB_FC_DEBUG_GET, MB_DEBUG_SUCCESS,
                         HighByte(lastVarIdx), LowByte(lastVarIdx), 0, 0, 0, 0,
                         HighByte(r.responseSize), LowByte(r.responseSize)>>,
             packed |-> r.packed]

\* The for loop of debugGetTrace from varidx on: a variable is copied while
\* (responseSize + 10) + varSize <= MAX_DEBUG_FRAME, the first that does not
\* fit ends the loop.  Variable varidx (from 0) has size sizes[varidx + 1].
RECURSIVE GetTraceLoop(_, _, _, _, _)
GetTraceLoop(sizes, varidx, endidx, responseSize, packed) ==
    IF varidx > endidx \/ (responseSize + 10) + sizes[varidx + 1] > MAX_DEBUG_FRAME
    THEN [responseSize |-> responseSize, packed |-> packed]
    ELSE GetTraceLoop(sizes, varidx + 1, endidx, responseSize + sizes[varidx + 1],
                      Append(packed, varidx))

\* debugGetTrace(frame, frame_len, startidx, endidx) with ext_get_var_count()
\* = Len(sizes); the four tick__ bytes of the header are written as 0.
debugGetTrace(sizes, startidx, endidx) ==
    IF startidx >= Len(sizes) \/ endidx >= Len(sizes) \/ startidx > endidx
    THEN [frame_len |-> 2, frame |-> <<MB_FC_DEBUG_GET, MB_DEBUG_ERROR_OUT_OF_BOUNDS>>,
          packed |-> <<>>]
    ELSE LET r == GetTraceLoop(sizes, startidx, endidx, 0, <<>>)
             lastVarIdx == IF r.packed = <<>> THEN startidx ELSE r.packed[Len(r.packed)]
         IN [frame_len |-> 10 + r.responseSize,
             frame |-> <<MB_FC_DEBUG_GET, MB_DEBUG_SUCCESS,
                         HighByte(lastVarIdx), LowByte(lastVarIdx), 0, 0, 0, 0,
                         HighByte(r.responseSize), LowByte(r.responseSize)>>,
             packed |-> r.packed]

\* Everything but dbg.
debug_frame == <<plc_state, plc_program, pm_handle, plc_thread, joinable, thr, ext,
                 ext_closed, bases_set, tables, buffer_mutex, cmd, driver, hooks,
                 crashed, plugin_thread, private_mutex, plc_heartbeat, scan_count,
                 track_stats, conf, api, calls, init_status, args_heap, gil, config_file, wd, timing,
                 parse, create,
        sl,
        pstats>>

\* A program with up to MaxVars debug variables and a GET_TRACE request.
DebugInit ==
    /\ plc_state = PLC_STATE_STOPPED
    /\ plc_program = "NULL"
    /\ pm_handle = "NULL"
    /\ plc_thread = 0
    /\ joinable = FALSE
    /\ thr = [t \in Threads |-> NoThread]
    /\ ext = "unset"
    /\ ext_closed = FALSE
    /\ bases_set = FALSE
    /\ tables = [c \in Cells |-> "null"]
    /\ buffer_mutex = 0
    /\ cmd = IdleCmd
    /\ driver = [plugin_count |-> 1, plugins |-> <<StartedNativePlugin>>]
    /\ hooks = [cycle_start |-> 0, cycle_end |-> 0]
    /\ crashed = FALSE
    /\ plugin_thread = NoPluginThread
    /\ private_mutex = 0
    /\ plc_heartbeat = 0
    /\ scan_count = 0
    /\ track_stats = FALSE
    /\ conf = <<>>
    /\ api = NoCall
    /\ calls = <<>>
    /\ init_status = <<>>
    /\ args_heap = <<>>
    /\ gil = 0
    /\ config_file = "readable"
    /\ wd = NoWatchdog
    /\ timing = NoTiming
    /\ parse = NoParse
    /\ create = NoCreate
    /\ sl = NoStateLock
    /\ pstats = NoStats
    /\ \E n \in 1 .. MaxVars : \E sizes \in [1 .. n -> VarSizes] :
       \E startidx, endidx \in 0 .. MaxVars :
          dbg = [NoDebug EXCEPT !.sizes = sizes, !.startidx = startidx,
                                !.endidx = endidx]

\* process_debug_data on a MB_FC_DEBUG_GET request.
ProcessGetTrace ==
    /\ ~dbg.replied
    /\ LET r == debugGetTrace(dbg.sizes, dbg.startidx, dbg.endidx) IN
          dbg' = [dbg EXCEPT !.replied = TRUE, !.frame_len = r.frame_len,
                             !.frame = r.frame, !.packed = r.packed]
    /\ UNCHANGED debug_frame

DebugNext == ProcessGetTrace

DebugSpec == DebugInit /\ [][DebugNext]_vars

\* Sum of the sizes of variables a .. b (numbered from 0).
RECURSIVE SizeSum(_, _, _)
SizeSum(sizes, a, b) == IF a > b THEN 0 ELSE sizes[a + 1] + SizeSum(sizes, a + 1, b)

\* The request names variables that exist, in order.
LegalGet == dbg.startidx <= dbg.endidx /\ dbg.endidx < Len(dbg.sizes)

\* C25: the reply to a GET_TRACE with start_idx <= end_idx < var_count packs
\* the variables in index order up to the first one that would take the
\* reply over 4096 bytes; its length is 10 plus the bytes packed and at most
\* 4096, its payload_len field is the number of bytes packed, and last_idx
\* is the index of the last variable packed.
C25_GetTraceReply ==
    dbg.replied /\ LegalGet =>
        LET n == Len(dbg.packed)
            bytes == IF n = 0 THEN 0 ELSE SizeSum(dbg.sizes, dbg.startidx, dbg.packed[n])
        IN /\ dbg.frame[2] = MB_DEBUG_SUCCESS
           /\ \A k \in 1 .. n : dbg.packed[k] = dbg.startidx + k - 1
           /\ \A j \in dbg.startidx .. dbg.endidx :
                 (\E k \in 1 .. n : dbg.packed[k] = j)
                    <=> 10 + SizeSum(dbg.sizes, dbg.startidx, j) <= MAX_DEBUG_FRAME
           /\ dbg.frame_len = 10 + bytes
           /\ dbg.frame_len <= MAX_DEBUG_FRAME
           /\ Field16(dbg.frame, 9) = bytes
           /\ n > 0 => Field16(dbg.frame, 3) = dbg.packed[n]

\* C25 witness: a reply that fills the frame to its last byte with two
\* variables and leaves the third of the request out.
C25_Witness ==
    /\ dbg.replied /\ LegalGet
    /\ dbg.startidx = 0 /\ dbg.endidx = 2
    /\ dbg.packed = <<0, 1>>
    /\ dbg.frame_len = MAX_DEBUG_FRAME
    /\ Field16(dbg.frame, 3) = 1

\* ---------------------------------------------------------------------------
\* the plugin descriptor file: parse_plugin_config
\* ---------------------------------------------------------------------------

\* The lines of the descriptor files, as fgets returns them: a comment, two
\* blank lines, four descriptors (five fields; six, of a CRLF file; whitespace
\* after the fields; whitespace before one) and two lines short of fields.
Lines ==
    {<<"#", "a", "\n">>,
     <<"\n">>,
     <<"\r", "\n">>,
     <<"a", ",", "b", ",", "1", ",", "0", ",", "c", "\n">>,
     <<"b", ",", "a", ",", "0", ",", "1", ",", "c", ",", "v", "\r", "\n">>,
     <<"a", " ", ",", "b", "\t", ",", "1", " ", ",", "0", ",", "c", " ", "\n">>,
     <<"b", ",", " ", "a", ",", "1", ",", "0", ",", "c", "\n">>,
     <<"a", ",", "b", "\n">>,
     <<"a", ",", "b", ",", "1", ",", "0", "\n">>}

\* fopen fails.
NoFile == <<<<"?">>>>

\* The files: up to MaxLines lines each.
Files == UNION {[1 .. n -> Lines] : n \in 0 .. MaxLines} \cup {NoFile}

\* An element of the caller's array that was never written.
JunkConfig ==
    [name |-> <<"?">>, path |-> <<"?">>, enabled |-> -1, type |-> -1,
     plugin_related_config_path |-> <<"?">>, venv_path |-> <<"?">>]

\* remove_newline: \n, \r, space and tab are cut from the end of the string.
RECURSIVE remove_newline(_)
remove_newline(str) ==
    IF str /= <<>> /\ str[Len(str)] \in {"\n", "\r", " ", "\t"}
    THEN remove_newline(SubSeq(str, 1, Len(str) - 1))
    ELSE str

\* strtok from the saved position: the delimiters in front are skipped, the
\* token runs to the next delimiter, which is consumed.
RECURSIVE SkipDelims(_, _)
SkipDelims(str, delim) ==
    IF str /= <<>> /\ str[1] \in delim THEN SkipDelims(Tail(str), delim) ELSE str

RECURSIVE TokenLen(_, _)
TokenLen(str, delim) ==
    IF str = <<>> \/ str[1] \in delim THEN 0 ELSE 1 + TokenLen(Tail(str), delim)

strtok(str, delim) ==
    LET t == SkipDelims(str, delim)
        n == TokenLen(t, delim)
    IN IF t = <<>>
       THEN [found |-> FALSE, token |-> <<>>, rest |-> <<>>]
       ELSE [found |-> TRUE, token |-> SubSeq(t, 1, n), rest |-> SubSeq(t, n + 2, Len(t))]

\* atoi: white space is skipped, then the decimal digits are read.
DigitVal(c) ==
    CASE c = "0" -> 0 [] c = "1" -> 1 [] c = "2" -> 2 [] c = "3" -> 3 [] c = "4" -> 4
      [] c = "5" -> 5 [] c = "6" -> 6 [] c = "7" -> 7 [] c = "8" -> 8 [] c = "9" -> 9
      [] OTHER -> -1

RECURSIVE AtoiDigits(_, _)
AtoiDigits(str, acc) ==
    IF str = <<>> \/ DigitVal(str[1]) < 0 THEN acc
    ELSE AtoiDigits(Tail(str), acc * 10 + DigitVal(str[1]))

atoi(str) == AtoiDigits(SkipDelims(str, {" ", "\t", "\n", "\r"}), 0)

\* parse_line that counts a line whatever fields it has.
parse_line_CountsMalformed(line, entry) ==
    LET t1 == strtok(line, {","})
        t2 == strtok(t1.rest, {","})
        t3 == strtok(t2.rest, {","})
        t4 == strtok(t3.rest, {","})
        t5 == strtok(t4.rest, {","})
        t6 == strtok(t5.rest, {",", "\n", "\r"})
        e1 == [entry EXCEPT !.name = remove_newline(t1.token)]
        e2 == [e1 EXCEPT !.path = remove_newline(t2.token)]
        e3 == [e2 EXCEPT !.enabled = atoi(t3.token)]
        e4 == [e3 EXCEPT !.type = atoi(t4.token)]
        e5 == [e4 EXCEPT !.plugin_related_config_path = remove_newline(t5.token)]
        e6 == [e5 EXCEPT !.venv_path = IF t6.found THEN remove_newline(t6.token) ELSE <<>>]
    IN IF ~t1.found THEN [counted |-> TRUE, entry |-> entry]
       ELSE IF ~t2.found THEN [counted |-> TRUE, entry |-> e1]
       ELSE IF ~t3.found THEN [counted |-> TRUE, entry |-> e2]
       ELSE IF ~t4.found THEN [counted |-> TRUE, entry |-> e3]
       ELSE IF ~t5.found THEN [counted |-> TRUE, entry |-> e4]
       ELSE [counted |-> TRUE, entry |-> e6]

\* The body of the while loop of parse_plugin_config on a line that is not
\* skipped as a comment or an empty line: each field found is stored into
\* configs[config_count] before the next is looked for, a missing one of the
\* first five leaves the line uncounted (continue).
parse_line(line, entry) ==
    LET t1 == strtok(line, {","})
        t2 == strtok(t1.rest, {","})
        t3 == strtok(t2.rest, {","})
        t4 == strtok(t3.rest, {","})
        t5 == strtok(t4.rest, {","})
        t6 == strtok(t5.rest, {",", "\n", "\r"})
        e1 == [entry EXCEPT !.name = remove_newline(t1.token)]
        e2 == [e1 EXCEPT !.path = remove_newline(t2.token)]
        e3 == [e2 EXCEPT !.enabled = atoi(t3.token)]
        e4 == [e3 EXCEPT !.type = atoi(t4.token)]
        e5 == [e4 EXCEPT !.plugin_related_config_path = remove_newline(t5.token)]
        e6 == [e5 EXCEPT !.venv_path = IF t6.found THEN remove_newline(t6.token) ELSE <<>>]
    IN IF ~t1.found THEN [counted |-> FALSE, entry |-> entry]
       ELSE IF ~t2.found THEN [counted |-> FALSE, entry |-> e1]
       ELSE IF ~t3.found THEN [counted |-> FALSE, entry |-> e2]
       ELSE IF ~t4.found THEN [counted |-> FALSE, entry |-> e3]
       ELSE IF ~t5.found THEN [counted |-> FALSE, entry |-> e4]
       ELSE [counted |-> TRUE, entry |-> e6]

\* parse_plugin_config whose loop does not look at max_configs.
RECURSIVE parse_loop_NoLimit(_, _, _, _, _, _)
parse_loop_NoLimit(file, k, max_configs, config_count, configs, written) ==
    IF k > Len(file)
    THEN [ret |-> config_count, configs |-> configs, written |-> written]
    ELSE IF file[k][1] \in {"#", "\n", "\r"}
    THEN parse_loop_NoLimit(file, k + 1, max_configs, config_count, configs, written)
    ELSE LET r == parse_line(file[k], configs[config_count]) IN
         parse_loop_NoLimit(file, k + 1, max_configs,
                            IF r.counted THEN config_count + 1 ELSE config_count,
                            [configs EXCEPT ![config_count] = r.entry],
                            written \cup {config_count})

parse_plugin_config_NoLimit(file, max_configs) ==
    IF file = NoFile
    THEN [ret |-> -1, configs |-> [w \in 0 .. MaxLines |-> JunkConfig], written |-> {}]
    ELSE parse_loop_NoLimit(file, 1, max_configs, 0,
                            [w \in 0 .. MaxLines |-> JunkConfig], {})

\* The while loop of parse_plugin_config from line k of the file on: it ends
\* when fgets finds no line or config_count has reached max_configs; a line
\* whose first character is '#', '\n' or '\r' is skipped.  written is the
\* set of indices of configs that were stored into.
RECURSIVE parse_loop(_, _, _, _, _, _)
parse_loop(file, k, max_configs, config_count, configs, written) ==
    IF k > Len(file) \/ ~(config_count < max_configs)
    THEN [ret |-> config_count, configs |-> configs, written |-> written]
    ELSE IF file[k][1] \in {"#", "\n", "\r"}
    THEN parse_loop(file, k + 1, max_configs, config_count, configs, written)
    ELSE LET r == parse_line(file[k], configs[config_count]) IN
         parse_loop(file, k + 1, max_configs,
                    IF r.counted THEN config_count + 1 ELSE config_count,
                    [configs EXCEPT ![config_count] = r.entry],
                    written \cup {config_count})

\* parse_plugin_config(config_file, configs, max_configs): -1 when the file
\* cannot be opened, else the number of descriptors stored.  The caller's
\* array is modelled one element longer than any file needs, so that a store
\* past max_configs would show in written.
parse_plugin_config(file, max_configs) ==
    IF file = NoFile
    THEN [ret |-> -1, configs |-> [w \in 0 .. MaxLines |-> JunkConfig], written |-> {}]
    ELSE parse_loop(file, 1, max_configs, 0, [w \in 0 .. MaxLines |-> JunkConfig], {})

\* Everything but parse.
parse_frame == <<plc_state, plc_program, pm_handle, plc_thread, joinable, thr, ext,
                 ext_closed, bases_set, tables, buffer_mutex, cmd, driver, hooks,
                 crashed, plugin_thread, private_mutex, plc_heartbeat, scan_count,
                 track_stats, conf, api, calls, init_status, args_heap, gil, config_file, wd, timing,
                 dbg, create,
        sl,
        pstats>>

\* A descriptor file and the max_configs of a direct caller.
ParseInit ==
    /\ plc_state = PLC_STATE_STOPPED
    /\ plc_program = "NULL"
    /\ pm_handle = "NULL"
    /\ plc_thread = 0
    /\ joinable = FALSE
    /\ thr = [t \in Threads |-> NoThread]
    /\ ext = "unset"
    /\ ext_closed = FALSE
    /\ bases_set = FALSE
    /\ tables = [c \in Cells |-> "null"]
    /\ buffer_mutex = 0
    /\ cmd = IdleCmd
    /\ driver = [plugin_count |-> 1, plugins |-> <<StartedNativePlugin>>]
    /\ hooks = [cycle_start |-> 0, cycle_end |-> 0]
    /\ crashed = FALSE
    /\ plugin_thread = NoPluginThread
    /\ private_mutex = 0
    /\ plc_heartbeat = 0
    /\ scan_count = 0
    /\ track_stats = FALSE
    /\ conf = <<>>
    /\ api = NoCall
    /\ calls = <<>>
    /\ init_status = <<>>
    /\ args_heap = <<>>
    /\ gil = 0
    /\ config_file = "readable"
    /\ wd = NoWatchdog
    /\ timing = NoTiming
    /\ dbg = NoDebug
    /\ create = NoCreate
    /\ sl = NoStateLock
    /\ pstats = NoStats
    /\ \E file \in Files : \E max_configs \in 1 .. MaxPlugins :
          parse = [NoParse EXCEPT !.file = file, !.max_configs = max_configs]

\* A direct call of parse_plugin_config with the caller's max_configs.
ParseCall ==
    /\ ~parse.done
    /\ LET r == parse_plugin_config(parse.file, parse.max_configs) IN
          parse' = [parse EXCEPT !.done = TRUE, !.ret = r.ret, !.configs = r.configs,
                                 !.written = r.written]
    /\ UNCHANGED parse_frame

\* plugin_driver_update_config from the parse on: MAX_PLUGINS is the limit, a
\* negative count returns -1, else plugin_count is the count and the
\* descriptors are copied into the driver's plugins.
UpdateConfigCall ==
    /\ ~parse.done
    /\ LET r == parse_plugin_config(parse.file, MaxPlugins) IN
          parse' = [parse EXCEPT !.done = TRUE, !.max_configs = MaxPlugins,
                                 !.ret = r.ret, !.configs = r.configs,
                                 !.written = r.written,
                                 !.plugin_count = IF r.ret < 0 THEN @ ELSE r.ret,
                                 !.plugins = IF r.ret < 0 THEN @
                                             ELSE [w \in 1 .. r.ret |-> r.configs[w - 1]]]
    /\ UNCHANGED parse_frame

ParseNext == ParseCall \/ UpdateConfigCall

ParseSpec == ParseInit /\ [][ParseNext]_vars

\* The descriptor file format as it is documented: the fields of a line are
\* what the commas separate, each with the white space around it removed.
WhiteSpace == {" ", "\t", "\n", "\r"}

RECURSIVE SplitCommas(_)
SplitCommas(str) ==
    LET n == TokenLen(str, {","}) IN
    IF n = Len(str) THEN <<str>>
    ELSE <<SubSeq(str, 1, n)>> \o SplitCommas(SubSeq(str, n + 2, Len(str)))

Trim(str) == remove_newline(SkipDelims(str, WhiteSpace))

TextFields(line) == [f \in DOMAIN SplitCommas(line) |-> Trim(SplitCommas(line)[f])]

IsIgnored(line) == line[1] = "#" \/ Trim(line) = <<>>

IsDescriptor(line) ==
    /\ ~IsIgnored(line)
    /\ Len(TextFields(line)) \in {5, 6}
    /\ \A f \in 1 .. Len(TextFields(line)) : TextFields(line)[f] /= <<>>
    /\ TextFields(line)[3] \in {<<"0">>, <<"1">>}
    /\ TextFields(line)[4] \in {<<"0">>, <<"1">>}

IsMalformed(line) == ~IsIgnored(line) /\ Len(TextFields(line)) < 5

\* The descriptor a legal line stands for.
TextDescriptor(line) ==
    LET f == TextFields(line) IN
    [name |-> f[1], path |-> f[2],
     enabled |-> IF f[3] = <<"1">> THEN 1 ELSE 0,
     type |-> IF f[4] = <<"1">> THEN 1 ELSE 0,
     plugin_related_config_path |-> f[5],
     venv_path |-> IF Len(f) = 6 THEN f[6] ELSE <<>>]

\* The descriptor lines of a file, in file order.
RECURSIVE DescriptorLines(_)
DescriptorLines(file) ==
    IF file = <<>> THEN <<>>
    ELSE (IF IsDescriptor(file[1]) THEN <<file[1]>> ELSE <<>>)
            \o DescriptorLines(Tail(file))

\* The file with the malformed lines taken out.
RECURSIVE WithoutMalformed(_)
WithoutMalformed(file) ==
    IF file = <<>> THEN <<>>
    ELSE (IF IsMalformed(file[1]) THEN <<>> ELSE <<file[1]>>)
            \o WithoutMalformed(Tail(file))

\* C26: of a legal file (descriptor lines, blank lines and comments) with k
\* descriptor lines, k within max_configs, parse_plugin_config returns k and
\* descriptor i has the trimmed fields of the i-th descriptor line, with an
\* empty script_env_path where the sixth field is absent.
C26_RoundTrip ==
    parse.done /\ parse.file /= NoFile
        /\ (\A k \in 1 .. Len(parse.file) :
               IsIgnored(parse.file[k]) \/ IsDescriptor(parse.file[k]))
        /\ Len(DescriptorLines(parse.file)) <= parse.max_configs
    => /\ parse.ret = Len(DescriptorLines(parse.file))
       /\ \A i \in 1 .. Len(DescriptorLines(parse.file)) :
             parse.configs[i - 1] = TextDescriptor(DescriptorLines(parse.file)[i])

\* C27: of a file with more than max_configs descriptor lines
\* parse_plugin_config returns max_configs, descriptor i is what the i-th
\* descriptor line of the file parses to, nothing is stored at index
\* max_configs or beyond, and plugin_count is at most MAX_PLUGINS.
C27_MaxConfigs ==
    parse.done /\ parse.file /= NoFile =>
        /\ \A w \in parse.written : w < parse.max_configs
        /\ parse.plugin_count <= MaxPlugins
        /\ Len(DescriptorLines(parse.file)) > parse.max_configs =>
              /\ parse.ret = parse.max_configs
              /\ \A i \in 1 .. parse.max_configs :
                    parse.configs[i - 1] =
                        parse_plugin_config(<<DescriptorLines(parse.file)[i]>>, 1).configs[0]

\* C27 witness: plugin_driver_update_config has read a file of three
\* different descriptor lines and kept the first two.
C27_Witness ==
    /\ parse.done
    /\ Len(DescriptorLines(parse.file)) = 3
    /\ parse.file[1] /= parse.file[2] /\ parse.file[2] /= parse.file[3]
    /\ parse.max_configs = 2 /\ parse.ret = 2 /\ parse.plugin_count = 2
    /\ parse.written = {0, 1}

\* C28: a line with fewer than five fields adds nothing to the count, and the
\* descriptors parsed are those of the file without such lines.
C28_MalformedSkipped ==
    parse.done /\ parse.file /= NoFile
        /\ (\E k \in 1 .. Len(parse.file) : IsMalformed(parse.file[k]))
    => LET q == parse_plugin_config(WithoutMalformed(parse.file), parse.max_configs) IN
       /\ parse.ret = q.ret
       /\ \A i \in 0 .. parse.ret - 1 : parse.configs[i] = q.configs[i]

\* C28 witness: a file with a line of two fields between two descriptor
\* lines has been parsed into two descriptors.
C28_Witness ==
    /\ parse.done
    /\ Len(parse.file) = 3
    /\ IsDescriptor(parse.file[1]) /\ IsDescriptor(parse.file[3])
    /\ parse.file[2] = <<"a", ",", "b", "\n">>
    /\ parse.file[1] /= parse.file[3]
    /\ parse.ret = 2

\* ---------------------------------------------------------------------------
\* plugin_driver_create
\* ---------------------------------------------------------------------------

\* The library call of plugin_driver_create that fails, if any.
FailPoints ==
    {"none", "calloc", "pthread_mutexattr_init", "pthread_mutexattr_setprotocol",
     "pthread_mutex_init"}

\* plugin_driver_create that returns NULL after a failed pthread_mutex_init
\* without freeing the driver.
plugin_driver_create_NoFree(fail) ==
    IF fail = "calloc"
    THEN [NoCalls EXCEPT !.calloc = 1]
    ELSE IF fail = "pthread_mutexattr_init"
    THEN [NoCalls EXCEPT !.calloc = 1, !.pthread_mutexattr_init = 1, !.free = 1]
    ELSE IF fail = "pthread_mutexattr_setprotocol"
    THEN [NoCalls EXCEPT !.calloc = 1, !.pthread_mutexattr_init = 1,
                         !.pthread_mutexattr_destroy = 1, !.free = 1]
    ELSE IF fail = "pthread_mutex_init"
    THEN [NoCalls EXCEPT !.calloc = 1, !.pthread_mutexattr_init = 1,
                         !.pthread_mutex_init = 1, !.pthread_mutexattr_destroy = 1]
    ELSE [NoCalls EXCEPT !.calloc = 1, !.pthread_mutexattr_init = 1,
                         !.pthread_mutex_init = 1, !.initialised = 1,
                         !.pthread_mutexattr_destroy = 1, !.ret = "driver"]

\* plugin_driver_create() when the library call fail fails: calloc, then
\* pthread_mutexattr_init, pthread_mutexattr_setprotocol and
\* pthread_mutex_init, each failure returning NULL after undoing what was
\* done, then pthread_mutexattr_destroy.  plugin_count is 0 from calloc.
plugin_driver_create(fail) ==
    IF fail = "calloc"
    THEN [NoCalls EXCEPT !.calloc = 1]
    ELSE IF fail = "pthread_mutexattr_init"
    THEN [NoCalls EXCEPT !.calloc = 1, !.pthread_mutexattr_init = 1, !.free = 1]
    ELSE IF fail = "pthread_mutexattr_setprotocol"
    THEN [NoCalls EXCEPT !.calloc = 1, !.pthread_mutexattr_init = 1,
                         !.pthread_mutexattr_destroy = 1, !.free = 1]
    ELSE IF fail = "pthread_mutex_init"
    THEN [NoCalls EXCEPT !.calloc = 1, !.pthread_mutexattr_init = 1,
                         !.pthread_mutex_init = 1, !.pthread_mutexattr_destroy = 1,
                         !.free = 1]
    ELSE [NoCalls EXCEPT !.calloc = 1, !.pthread_mutexattr_init = 1,
                         !.pthread_mutex_init = 1, !.initialised = 1,
                         !.pthread_mutexattr_destroy = 1, !.ret = "driver"]

\* Everything but create.
create_frame == <<plc_state, plc_program, pm_handle, plc_thread, joinable, thr, ext,
                  ext_closed, bases_set, tables, buffer_mutex, cmd, driver, hooks,
                  crashed, plugin_thread, private_mutex, plc_heartbeat, scan_count,
                  track_stats, conf, api, calls, init_status, args_heap, gil, config_file, wd, timing,
                  dbg, parse, sl,
        pstats>>

\* A call of plugin_driver_create in which any one library call may fail.
CreateCall ==
    /\ create.calls < MaxCreates
    /\ \E fail \in FailPoints :
          LET r == plugin_driver_create(fail) IN
          create' = [calls |-> create.calls + 1, fail |-> fail, last |-> r,
                     total |-> [f \in DOMAIN NoCalls |->
                                  IF f \in {"ret", "plugin_count"} THEN r[f]
                                  ELSE create.total[f] + r[f]]]
    /\ UNCHANGED create_frame

CreateNext == CreateCall

CreateSpec == Init /\ [][CreateNext]_vars

\* C29: plugin_driver_create is all or nothing.  When calloc fails it returns
\* NULL and no mutex call was made; when the mutex cannot be set up it
\* returns NULL and the driver was freed once; else it returns a driver with
\* plugin_count 0 whose mutex was initialised once and which was not freed.
\* Over all calls, the drivers allocated are those freed and those returned.
C29_CreateAllOrNothing ==
    create.calls > 0 =>
        /\ create.fail = "calloc" =>
              /\ create.last.ret = "NULL"
              /\ create.last.pthread_mutexattr_init = 0
              /\ create.last.pthread_mutex_init = 0
              /\ create.last.free = 0
        /\ create.fail \in {"pthread_mutexattr_init", "pthread_mutexattr_setprotocol",
                            "pthread_mutex_init"} =>
              /\ create.last.ret = "NULL"
              /\ create.last.free = 1
              /\ create.last.initialised = 0
        /\ create.fail = "none" =>
              /\ create.last.ret = "driver"
              /\ create.last.plugin_count = 0
              /\ create.last.pthread_mutex_init = 1
              /\ create.last.initialised = 1
              /\ create.last.free = 0
        /\ create.last.ret = "driver" <=> create.fail = "none"
        /\ create.total.free <= create.total.calloc
        /\ create.total.initialised + create.total.free <= create.total.calloc

\* C29 witness: calls that failed in calloc, in pthread_mutex_init and not at
\* all have been made, the last one a failure of pthread_mutex_init.
C29_Witness ==
    /\ create.calls = 3
    /\ create.fail = "pthread_mutex_init"
    /\ create.last.ret = "NULL" /\ create.last.free = 1
    /\ create.total.calloc = 3 /\ create.total.free = 1 /\ create.total.initialised = 1
    /\ create.total.pthread_mutex_init = 2

\* ---------------------------------------------------------------------------
\* a STOP completes
\* ---------------------------------------------------------------------------

\* plc_set_state(STOPPED) is entered while the scan thread of a START that
\* returned true is there to be joined and the state is INIT or RUNNING.
StopRequested ==
    /\ cmd.pc = "set_entry" /\ cmd.new_state = PLC_STATE_STOPPED
    /\ joinable
    /\ plc_state \in {PLC_STATE_INIT, PLC_STATE_RUNNING}

\* That plc_set_state(STOPPED) returns true with the state STOPPED.
StopCompleted ==
    /\ cmd.pc = "return" /\ cmd.new_state = PLC_STATE_STOPPED
    /\ cmd.ret = "true"
    /\ plc_state = PLC_STATE_STOPPED

\* C30: a STOP requested after a START that returned true, the state INIT or
\* RUNNING, completes (in a process that is alive): the join returns, the
\* call returns true and the state is then STOPPED.
C30_StopCompletes == StopRequested ~> (crashed \/ StopCompleted)

\* ---------------------------------------------------------------------------
\* RUNNING is published by the scan loop
\* ---------------------------------------------------------------------------

\* C31: whenever the state word reads RUNNING a program artifact is open and
\* a scan-cycle thread exists; the state word becomes RUNNING only by the
\* store of the scan thread, and while a start is in progress it is the
\* previous state, INIT, RUNNING, ERROR or EMPTY.
C31_RunningPublishedByLoop ==
    /\ [](plc_state = PLC_STATE_RUNNING =>
             /\ plc_program /= "NULL" /\ pm_handle /= "NULL"
             /\ \E t \in Threads : thr[t].pc \notin {"none", "done"})
    /\ [][plc_state' = PLC_STATE_RUNNING /\ plc_state /= PLC_STATE_RUNNING =>
             \E t \in Threads : thr[t].pc = "publish" /\ thr'[t].pc = "check"]_vars

\* ---------------------------------------------------------------------------
\* the join of the scan thread
\* ---------------------------------------------------------------------------

\* C32: pthread_join in unload_plc_program is called only on the handle of a
\* scan thread that was created for the program and not joined since.
C32_JoinOnlySpawned ==
    [][cmd.pc = "join" /\ cmd'.pc = "destroy" =>
          joinable /\ thr[plc_thread].pc /= "none"]_vars

\* ---------------------------------------------------------------------------
\* the watchdog and the start of a run
\* ---------------------------------------------------------------------------

\* C33: the watchdog does not terminate the process between the state word
\* becoming RUNNING and the first heartbeat of the run.  At boot that is
\* while plc_heartbeat is still 0, the value it is defined with: no
\* heartbeat has been stored at all.
C33_NoExitBeforeFirstBeat == wd.exited => plc_heartbeat > 0

\* ---------------------------------------------------------------------------
\* the deadline of the sleep
\* ---------------------------------------------------------------------------

\* C34: the deadline the scan thread sleeps until after its n-th cycle is the
\* clock reading taken before the first cycle plus n times T, whatever the
\* cycles took and whenever the thread woke; each deadline is the one before
\* plus T.
C34_Deadline ==
    /\ [](timing.pc = "sleep" =>
             /\ TimeOf(timing.timer_start) = timing.t0 + timing.started * Tick
             /\ timing.timer_start.tv_nsec < Second)
    /\ [][timing.pc = "body" /\ timing'.pc = "sleep" =>
             TimeOf(timing'.timer_start) = TimeOf(timing.timer_start) + Tick]_vars

\* C34 witness: the third cycle of a run ended after its deadline, the
\* first having begun later than time 0, and the deadline is past a second.
C34_Witness ==
    /\ timing.pc = "sleep" /\ timing.started = 3
    /\ timing.t0 > 0
    /\ timing.now > TimeOf(timing.timer_start)
    /\ timing.timer_start.tv_sec >= 2

\* ---------------------------------------------------------------------------
\* the state lock
\* ---------------------------------------------------------------------------

\* Everything but plc_state and sl.
statelock_frame == <<plc_program, pm_handle, plc_thread, joinable, thr, ext,
                     ext_closed, bases_set, tables, buffer_mutex, cmd, driver, hooks,
                     crashed, plugin_thread, private_mutex, plc_heartbeat, scan_count,
                     track_stats, conf, api, calls, init_status, args_heap, gil, config_file, wd, timing,
                     dbg, parse, create, pstats>>

\* pthread_mutex_lock(&state_mutex) by thread who, which goes on to pc.
StateLock(who, pc) ==
    /\ sl.owner = "none"
    /\ sl' = [sl EXCEPT !.owner = who, ![who] = pc]

\* pthread_mutex_unlock(&state_mutex) by thread who, which goes on to pc.
StateUnlock(who, pc) ==
    /\ sl.owner = who
    /\ sl' = [sl EXCEPT !.owner = "none", ![who] = pc]

\* An access of the state word by thread who: it is made with the lock held
\* exactly if who owns state_mutex.
Access(who, kind) ==
    [by |-> who, kind |-> kind, locked |-> sl.owner = who, in_set_state |-> who = "set"]

\* plc_set_state(new_state) is called and takes the lock.
SlSetLock ==
    /\ sl.set = "idle"
    /\ \E new_state \in {PLC_STATE_RUNNING, PLC_STATE_STOPPED} :
          /\ sl.owner = "none"
          /\ sl' = [sl EXCEPT !.owner = "set", !.set = "entry", !.new_state = new_state]
    /\ UNCHANGED plc_state
    /\ UNCHANGED statelock_frame

\* plc_set_state: the comparison with new_state and the store.
SlSetEntry ==
    /\ sl.set = "entry"
    /\ IF plc_state = sl.new_state
       THEN /\ sl' = [sl EXCEPT !.set = "unlock_same", !.access = Access("set", "read")]
            /\ UNCHANGED plc_state
       ELSE /\ sl' = [sl EXCEPT !.set = "unlock", !.access = Access("set", "write")]
            /\ plc_state' = sl.new_state
    /\ UNCHANGED statelock_frame

\* plc_set_state: the unlock; false when the state was new_state already, else
\* on to load_plc_program or unload_plc_program.
SlSetUnlock ==
    /\ \/ sl.set = "unlock_same" /\ StateUnlock("set", "idle")
       \/ sl.set = "unlock" /\ StateUnlock("set", "transition")
    /\ UNCHANGED plc_state
    /\ UNCHANGED statelock_frame

\* load_plc_program or unload_plc_program takes the lock for its store.
SlTransitionLock ==
    /\ sl.set = "transition"
    /\ StateLock("set", "transition_store")
    /\ UNCHANGED plc_state
    /\ UNCHANGED statelock_frame

\* load_plc_program stores INIT (the artifact was opened), EMPTY or ERROR;
\* unload_plc_program stores STOPPED.
SlTransitionStore ==
    /\ sl.set = "transition_store"
    /\ \E v \in IF sl.new_state = PLC_STATE_RUNNING
                THEN {PLC_STATE_INIT, PLC_STATE_EMPTY, PLC_STATE_ERROR}
                ELSE {PLC_STATE_STOPPED} :
          /\ plc_state' = v
          /\ sl' = [sl EXCEPT !.set = IF v = PLC_STATE_INIT THEN "spawn"
                                      ELSE IF v = PLC_STATE_STOPPED THEN "join"
                                      ELSE "return",
                              !.access = Access("set", "write")]
    /\ UNCHANGED statelock_frame

\* The unlock after the store; pthread_create after INIT when no scan thread
\* is there, pthread_join after STOPPED when one is.
SlTransitionUnlock ==
    /\ sl.set \in {"spawn", "join", "return"}
    /\ sl.owner = "set"
    /\ sl' = [sl EXCEPT !.owner = "none",
                        !.set = IF sl.set = "join" /\ sl.scan /= "none" THEN "joining"
                                ELSE "idle",
                        !.scan = IF sl.set = "spawn" /\ sl.scan = "none" THEN "start"
                                 ELSE @]
    /\ UNCHANGED plc_state
    /\ UNCHANGED statelock_frame

\* pthread_join returns: the scan thread has returned.
SlJoin ==
    /\ sl.set = "joining" /\ sl.scan = "done"
    /\ sl' = [sl EXCEPT !.set = "idle", !.scan = "none"]
    /\ UNCHANGED plc_state
    /\ UNCHANGED statelock_frame

\* plc_cycle_thread, initialised, takes the lock.
SlPublishLock ==
    /\ sl.scan = "start"
    /\ StateLock("scan", "publish")
    /\ UNCHANGED plc_state
    /\ UNCHANGED statelock_frame

\* plc_cycle_thread: plc_state = PLC_STATE_RUNNING.
SlPublish ==
    /\ sl.scan = "publish"
    /\ plc_state' = PLC_STATE_RUNNING
    /\ sl' = [sl EXCEPT !.scan = "publish_unlock", !.access = Access("scan", "write")]
    /\ UNCHANGED statelock_frame

\* plc_cycle_thread: the unlock after the store.
SlPublishUnlock ==
    /\ sl.scan = "publish_unlock"
    /\ StateUnlock("scan", "check")
    /\ UNCHANGED plc_state
    /\ UNCHANGED statelock_frame

\* plc_cycle_thread: while (plc_state == PLC_STATE_RUNNING), one cycle when it
\* is and return NULL when it is not.
SlLoopCheck ==
    /\ sl.scan = "check"
    /\ sl' = [sl EXCEPT !.scan = IF plc_state = PLC_STATE_RUNNING THEN "check" ELSE "done",
                        !.access = Access("scan", "read")]
    /\ UNCHANGED plc_state
    /\ UNCHANGED statelock_frame

\* plc_get_state takes the lock.
SlGetLock ==
    /\ sl.get = "idle"
    /\ StateLock("get", "read")
    /\ UNCHANGED plc_state
    /\ UNCHANGED statelock_frame

\* plc_get_state: state = plc_state.
SlGetRead ==
    /\ sl.get = "read"
    /\ sl' = [sl EXCEPT !.get = "unlock", !.access = Access("get", "read")]
    /\ UNCHANGED plc_state
    /\ UNCHANGED statelock_frame

\* plc_get_state: the unlock and the return.
SlGetUnlock ==
    /\ sl.get = "unlock"
    /\ StateUnlock("get", "idle")
    /\ UNCHANGED plc_state
    /\ UNCHANGED statelock_frame

StateLockNext ==
    \/ SlSetLock
    \/ SlSetEntry
    \/ SlSetUnlock
    \/ SlTransitionLock
    \/ SlTransitionStore
    \/ SlTransitionUnlock
    \/ SlJoin
    \/ SlPublishLock
    \/ SlPublish
    \/ SlPublishUnlock
    \/ SlLoopCheck
    \/ SlGetLock
    \/ SlGetRead
    \/ SlGetUnlock

StateLockSpec == Init /\ [][StateLockNext]_vars

\* C35: every read and every write of the state word is made with the state
\* lock held, and every write is made by the thread that is in plc_set_state.
C35_StateLockDiscipline ==
    sl.access.kind /= "none" =>
        /\ sl.access.locked
        /\ sl.access.kind = "write" => sl.access.in_set_state

\* ---------------------------------------------------------------------------
\* the timing statistics
\* ---------------------------------------------------------------------------

\* Everything but scan_count and pstats.
stats_frame == <<plc_state, plc_program, pm_handle, plc_thread, joinable, thr, ext,
                 ext_closed, bases_set, tables, buffer_mutex, cmd, driver, hooks,
                 crashed, plugin_thread, private_mutex, plc_heartbeat, track_stats,
                 conf, api, calls, init_status, args_heap, gil, config_file, wd, timing, dbg, parse,
                 create, sl>>

\* The / of C on int64_t: the quotient is truncated towards zero.
Quot(a, b) == IF a >= 0 THEN a \div b ELSE -((-a) \div b)

Min(a, b) == IF a < b THEN a ELSE b
Max(a, b) == IF a > b THEN a ELSE b

\* The running average with a divisor that is one too large.
RunningAvg_OffByOne(avg, sample, n) == avg + Quot(sample - avg, n + 1)

\* avg += (sample - avg) / scan_count.
RunningAvg(avg, sample, n) == avg + Quot(sample - avg, n)

\* scan_cycle_time_start after the first cycle: the cycle time and the cycle
\* latency go into their statistics, with scan_count n as the divisor.
cycle_stats(s, n, now_us) ==
    LET cycle_time_us == now_us - s.last_start_us
        latency_us == now_us - s.expected_start_us
    IN [s EXCEPT !.cycle_time_min = Min(@, cycle_time_us),
                 !.cycle_time_max = Max(@, cycle_time_us),
                 !.cycle_time_avg = RunningAvg(@, cycle_time_us, n),
                 !.cycle_latency_min = Min(@, latency_us),
                 !.cycle_latency_max = Max(@, latency_us),
                 !.cycle_latency_avg = RunningAvg(@, latency_us, n),
                 !.cycle_samples = @ + 1,
                 !.cycle_time_us = cycle_time_us,
                 !.latency_us = latency_us]

\* scan_cycle_time_end: the scan time goes into its statistics.
scan_stats(s, n, now_us) ==
    LET scan_time_us == now_us - s.last_start_us
    IN [s EXCEPT !.scan_time_min = Min(@, scan_time_us),
                 !.scan_time_max = Max(@, scan_time_us),
                 !.scan_time_avg = RunningAvg(@, scan_time_us, n),
                 !.scan_samples = @ + 1,
                 !.scan_time_us = scan_time_us]

\* plc_cycle_thread publishes RUNNING, resets scan_count and reads the clock
\* into timer_start.
StatsRunBegins ==
    /\ pstats.pc \in {"idle", "sleep"}
    /\ pstats.runs < MaxRuns
    /\ scan_count' = 0
    /\ pstats' = [pstats EXCEPT !.pc = "start", !.runs = @ + 1,
                        !.timer_start = clock_gettime(pstats.now),
                        !.scan_samples = 0, !.cycle_samples = 0]
    /\ UNCHANGED stats_frame

\* scan_cycle_time_start, d clock units after timer_start was read when it
\* is the first of the run.
StatsCycleStart ==
    /\ pstats.pc = "start"
    /\ scan_count < MaxCycles
    /\ \E d \in IF scan_count = 0 THEN {0, 1} ELSE {0} :
          pstats' = [scan_cycle_time_start(
                     IF scan_count = 0 THEN [pstats EXCEPT !.now = @ + d]
                     ELSE cycle_stats(pstats, scan_count, pstats.now),
                     scan_count, pstats.now + d)
                 EXCEPT !.pc = "body"]
    /\ scan_count' = scan_count + 1
    /\ UNCHANGED stats_frame

\* The cycle takes no time or MaxBody clock units; scan_cycle_time_end; timer_start is moved
\* on by the tick time.
StatsCycleEnd ==
    /\ pstats.pc = "body"
    /\ \E d \in {0, MaxBody} :
          pstats' = [scan_cycle_time_end(
                     scan_stats([pstats EXCEPT !.now = @ + d], scan_count, pstats.now + d),
                     pstats.now + d)
                 EXCEPT !.pc = "sleep",
                        !.timer_start =
                            normalize_timespec([@ EXCEPT !.tv_nsec = @ + Tick])]
    /\ UNCHANGED scan_count
    /\ UNCHANGED stats_frame

\* sleep_until(&timer_start): the thread runs again at the deadline or
\* MaxSleep clock units after it, counted from now when the deadline has
\* passed.
StatsSleep ==
    /\ pstats.pc = "sleep"
    /\ \E d \in {0, MaxSleep} :
          pstats' = [pstats EXCEPT !.pc = "start",
                           !.now = Max(pstats.now, TimeOf(pstats.timer_start)) + d]
    /\ UNCHANGED scan_count
    /\ UNCHANGED stats_frame

StatsNext ==
    \/ StatsRunBegins
    \/ StatsCycleStart
    \/ StatsCycleEnd
    \/ StatsSleep

StatsSpec == Init /\ [][StatsNext]_vars

\* C36: the latency statistics are never negative.
C36_LatencyNotNegative ==
    /\ pstats.cycle_latency_min >= 0
    /\ pstats.cycle_latency_max >= 0
    /\ pstats.cycle_latency_avg >= 0

\* C37: each average is updated as avg + (sample - avg) / n, the quotient
\* truncated, n the number of samples of the quantity taken in the run with
\* this one; the first sample of a run is then the average, and after every
\* update the average is between the minimum and the maximum.
C37_RunningAverages ==
    /\ [][pstats'.scan_samples = pstats.scan_samples + 1 =>
             /\ scan_count = pstats'.scan_samples
             /\ pstats'.scan_time_avg =
                   pstats.scan_time_avg
                      + Quot(pstats'.scan_time_us - pstats.scan_time_avg, pstats'.scan_samples)
             /\ pstats'.scan_samples = 1 => pstats'.scan_time_avg = pstats'.scan_time_us]_vars
    /\ [][pstats'.cycle_samples = pstats.cycle_samples + 1 =>
             /\ scan_count = pstats'.cycle_samples
             /\ pstats'.cycle_time_avg =
                   pstats.cycle_time_avg
                      + Quot(pstats'.cycle_time_us - pstats.cycle_time_avg, pstats'.cycle_samples)
             /\ pstats'.cycle_latency_avg =
                   pstats.cycle_latency_avg
                      + Quot(pstats'.latency_us - pstats.cycle_latency_avg, pstats'.cycle_samples)
             /\ pstats'.cycle_samples = 1 =>
                   /\ pstats'.cycle_time_avg = pstats'.cycle_time_us
                   /\ pstats'.cycle_latency_avg = pstats'.latency_us]_vars
    /\ [](pstats.scan_samples > 0 =>
             pstats.scan_time_min <= pstats.scan_time_avg /\ pstats.scan_time_avg <= pstats.scan_time_max)
    /\ [](pstats.cycle_samples > 0 =>
             /\ pstats.cycle_time_min <= pstats.cycle_time_avg
             /\ pstats.cycle_time_avg <= pstats.cycle_time_max
             /\ pstats.cycle_latency_min <= pstats.cycle_latency_avg
             /\ pstats.cycle_latency_avg <= pstats.cycle_latency_max)

\* C37 witness: in the second run the third scan time has been averaged, the
\* average being none of the samples' bounds.
C37_Witness ==
    /\ pstats.runs = 2 /\ pstats.pc = "sleep"
    /\ pstats.scan_samples = 3 /\ pstats.cycle_samples = 2
    /\ pstats.scan_time_min < pstats.scan_time_avg /\ pstats.scan_time_avg < pstats.scan_time_max
    /\ pstats.cycle_time_min < pstats.cycle_time_avg /\ pstats.cycle_time_avg < pstats.cycle_time_max

\* ------------------------------------------------ scan_count and its divisions

\* The runtime of Init with the heartbeat and scan_count followed.
CountInit ==
    /\ plc_state = PLC_STATE_STOPPED
    /\ plc_program = "NULL"
    /\ pm_handle = "NULL"
    /\ plc_thread = 0
    /\ joinable = FALSE
    /\ thr = [t \in Threads |-> NoThread]
    /\ ext = "unset"
    /\ ext_closed = FALSE
    /\ bases_set = FALSE
    /\ tables = [c \in Cells |-> "null"]
    /\ buffer_mutex = 0
    /\ cmd = IdleCmd
    /\ driver = [plugin_count |-> 1, plugins |-> <<StartedNativePlugin>>]
    /\ hooks = [cycle_start |-> 0, cycle_end |-> 0]
    /\ crashed = FALSE
    /\ plugin_thread = NoPluginThread
    /\ private_mutex = 0
    /\ plc_heartbeat = 0
    /\ scan_count = 0
    /\ track_stats = TRUE
    /\ conf = <<>>
    /\ api = NoCall
    /\ calls = <<>>
    /\ init_status = <<>>
    /\ args_heap = <<>>
    /\ gil = 0
    /\ config_file = "readable"
    /\ wd = NoWatchdog
    /\ timing = NoTiming
    /\ dbg = NoDebug
    /\ parse = NoParse
    /\ create = NoCreate
    /\ sl = NoStateLock
    /\ pstats = NoStats

CountSpec == CountInit /\ [][Next]_vars

\* C38: whenever scan_cycle_time_end divides by scan_count, scan_count is at
\* least 1: a scan thread about to run scan_cycle_time_end never finds the
\* scan_count = 0 stored by a starting scan thread.
C38_DivisorPositive ==
    \A t \in Threads : thr[t].pc = "time_end" => scan_count >= 1

\* ------------------------------------------ plugin_driver_init and the GIL

\* C39: every call of plugin_driver_init releases the interpreter lock it
\* acquired on entry before it returns, on the success path and on every
\* failure path; after any sequence of init calls the acquisitions and the
\* releases are balanced.
C39_GilBalanced == gil = 0

\* ------------------------------------- the descriptor file cannot be read

\* The descriptor file is removed or made unreadable (no default to copy
\* from), or is put back.
ConfigFileChange ==
    /\ config_file' \in {"readable", "unreadable"} \ {config_file}
    /\ UNCHANGED <<driver, hooks, conf, api, calls, init_status, args_heap, gil>>
    /\ UNCHANGED core_vars

ConfigNext == PluginNext \/ ConfigFileChange

ConfigSpec == PluginInit /\ [][ConfigNext]_vars

\* C40: plugin_driver_load_config propagates the failure of the read: a
\* load_config that runs while the descriptor file cannot be opened returns
\* -1 and resolves no symbols (the driver is as it was), and a restart whose
\* load_config cannot read the file returns -1 without calling any init on
\* the descriptor list left over from the earlier load.
C40_LoadConfigPropagates ==
    /\ [][api'.op = "load_config" /\ api.op /= "load_config"
            /\ config_file = "unreadable"
            => api'.ret = -1 /\ driver' = driver]_vars
    /\ [][api'.op = "restart" /\ calls' /= calls /\ config_file = "unreadable"
            => /\ api'.ret = -1
               /\ \A k \in 1 .. Len(calls') : calls'[k][1] /= "init"]_vars

====
